---- MODULE Spec2Model ----
(***************************************************************************)
(* A model of the reactive engine of reactive-html: Signal (observable    *)
(* cell), Effect / EffectTracker (tracked computation), BatchScheduler,   *)
(* ComputedSignal (cached derivation) and the reactive() wrapper.         *)
(*                                                                         *)
(* JavaScript runs every handler to completion on one thread, so each     *)
(* action below is one complete top-level call.  The nested calls a       *)
(* handler makes (write -> notify -> subscriber -> schedule, flush -> run *)
(* -> body -> read / write ...) are operators that take the engine state  *)
(* as a record and return the new record.                                 *)
(***************************************************************************)
EXTENDS Integers, Sequences, FiniteSets, TLC

\* ------------------------------------------------------------------------
\* Bounds
\* ------------------------------------------------------------------------
\* Cells hold values 0..MaxVal.
MaxVal == 1
\* Number of top-level calls made by user code (frames are not counted).
MaxOps == 4
\* Number of proxies that reactive() may allocate.
MaxProxies == 4
\* Longest array the mutating operations may produce.
MaxLen == 2
\* Number of mutating operations made on the wrapped array.
MaxArrOps == 2
\* Keys of list items are 1..MaxKeys, and so are the items themselves; a
\* list holds fewer than MaxKeys items.
MaxKeys == 4
\* Number of reconciliations after the one that mounts the list.
MaxUpdates == 1
\* Number of nextTick() calls.
MaxTicks == 2
\* Number of in-place changes of item keys.
MaxRekeys == 2
\* Number of assignments and deletions of properties through wrappers.
MaxPropOps == 3

\* ------------------------------------------------------------------------
\* The objects of the modelled program
\* ------------------------------------------------------------------------
Cells == {"a", "b", "p"}          \* plain Signals
Comps == {"d"}                    \* ComputedSignals (getter: p ? a : b)
PlainEffs == {"e1", "e2"}         \* Effects made by EffectTracker.create
\* Callbacks of user code: u1 throws, u2 returns, u3 subscribes u2 to the
\* cell that called it, u4 calls the unsubscribe closure of u2 for that cell.
UserSubs == {"u1", "u2", "u3", "u4"}
\* The Signals that reactiveArray keeps for one wrapped array.
ArrSigs == {"length", "__version", "__arrayChange"}
Effs == PlainEffs \cup Comps      \* a ComputedSignal owns one Effect, same id
Sigs == Cells \cup Comps \cup ArrSigs   \* a ComputedSignal is a Signal
Vals == 0..MaxVal
Null == "null"
Undef == -1                       \* JavaScript undefined
NoBody == "none"

Other(e) == IF e = "e1" THEN "e2" ELSE "e1"

\* ------------------------------------------------------------------------
\* Effect bodies.  A body is a straight-line program over the engine's API.
\* ------------------------------------------------------------------------
I(op, x, y, v) == [op |-> op, x |-> x, y |-> y, v |-> v]

BodyNames == {"cond", "sum", "chain", "self", "stopA", "stopB", "nested", "comp",
              "stopSelf"}
\* Bodies used where user code also calls nextTick().
TickBodyNames == {"sum", "chain", "tick"}
\* Bodies used where computations throw an Error object or null, possibly
\* while run by a flushSync() that another body makes.
ErrBodyNames == {"sum", "throwErr", "throwNull", "nested"}
AcyclicBodyNames == BodyNames \ {"self"}
\* Bodies used where computations call the methods of a wrapped array.
MutBodyNames == {"push", "reverse", "len", "sum"}

Prog(b, e) ==
  CASE b = "cond"   -> << I("readif", "p", "a", 0) >>
    [] b = "sum"    -> << I("read", "a", "", 0), I("read", "b", "", 0),
                          I("read", "a", "", 0) >>
    [] b = "chain"  -> << I("copy", "a", "b", 0) >>
    [] b = "self"   -> << I("read", "p", "", 0), I("write", "p", "", 0) >>
    [] b = "stopA"  -> << I("copy", "p", "a", 0), I("stop", Other(e), "", 0) >>
    [] b = "stopB"  -> << I("stop", Other(e), "", 0), I("copy", "p", "a", 0) >>
    [] b = "nested" -> << I("copy", "p", "a", 0), I("flushSync", "", "", 0) >>
    [] b = "comp"   -> << I("readc", "d", "", 0) >>
    [] b = "stopSelf" -> << I("stopif", "p", e, 0), I("read", "a", "", 0) >>
    [] b = "tick"   -> << I("copy", "p", "a", 0), I("nextTick", "", "", 0) >>
    [] b = "push"   -> << I("mutate", "push", "", 0) >>
    [] b = "reverse" -> << I("mutate", "reverse", "", 0) >>
    [] b = "len"    -> << I("read", "length", "", 0) >>
    [] b = "throwErr"  -> << I("read", "a", "", 0),
                             I("throwif", "p", "error", 0),
                             I("read", "b", "", 0) >>
    [] b = "throwNull" -> << I("read", "a", "", 0),
                             I("throwif", "p", "null", 0),
                             I("read", "b", "", 0) >>
    [] OTHER        -> << >>

\* ------------------------------------------------------------------------
\* State
\* ------------------------------------------------------------------------
VARIABLES
  val,          \* Signal._value of each plain cell
  subs,         \* Signal._subscribers, in insertion order, by owning effect
  deps,         \* Effect.dependencies
  cleanups,     \* Effect.cleanups: the signals of the unsubscribe closures
  active,       \* Effect.active
  scheduled,    \* Effect.scheduled
  made,         \* the effect / computed has been constructed
  body,         \* Effect.fn of a plain effect
  pending,      \* BatchScheduler.pendingEffects (a Set, insertion ordered)
  isScheduled,  \* BatchScheduler.isScheduled
  isFlushing,   \* BatchScheduler.isFlushing
  raf,          \* outstanding requestAnimationFrame(() => flush()) callbacks
  current,      \* EffectTracker.current
  stack,        \* EffectTracker.stack
  cval,         \* ComputedSignal._value
  dirty,        \* ComputedSignal.dirty
  overridden,   \* ComputedSignal has replaced effect.run
  lastReads,    \* history: signals read under the effect since its last run began
  notifiedBy,   \* history: signals whose change called the effect's subscriber
                \*          since its last run began
  seen,         \* history: value of d the effect obtained in its last run
  stopCalled,   \* history: stop() has been called on the effect
  everRead,     \* history: signals the effect has read in any run
  handed,       \* history: effects given to schedule() that no flush has
                \*          taken up yet
  log,          \* history: what the last top-level call did, in order
  tick,         \* history: parity of the number of frames delivered
  calls,        \* history: times the accessor of the computed was invoked
  depChanged,   \* history: a cell the computed's effect depends on has
                \*          changed since the computed was constructed
  stale,        \* history: the dependency of the computed changed last
                \*          since the latest flush began (Null if none)
  rafq,         \* the host's queue of requestAnimationFrame callbacks
  threw,        \* history: the last run of the effect's body threw
  onError,      \* ErrorBoundary.onError of GlobalErrorHandler.instance
  shadow,       \* the set trap has stored a plain Signal under the key of
                \* the getter property; cval is then that Signal's _value
  ticks,        \* history: one record per nextTick() call
  ops,          \* number of top-level calls made so far
  kind,         \* heap: "obj" / "arr" (raw), "proxy", or "free"
  target,       \* heap: the target of a Proxy (ReactiveModel._rawMap)
  child,        \* heap: raw value of the one property (element) of an object
  reactiveMap,  \* ReactiveModel._reactiveMap
  sigKeys,      \* keys of ReactiveModel._signalsMap.get(o)
  cell,         \* _value of the Signal _signalsMap.get(o).get('child')
  pops,         \* number of property assignments and deletions so far
  nextId,       \* next heap address
  wlast,        \* history: the last wrapper call, its argument and result
  firstWrap,    \* history: result of the first reactive(o)
  firstGet,     \* history: result of the first read of the property via o
  elems,        \* the elements of the raw array
  version,      \* value of the '__version' Signal in _signalsMap.get(o)
  alast,        \* history: the last mutating operation on a wrapped array
  aops,         \* number of mutating array operations made so far
  instances,    \* LoopBinding.instances: records [key, el]
  dom,          \* the children of anchor.parentNode, in order
  nextEl,       \* next node that template.cloneNode creates
  rlast,        \* history: the last reconciliation
  updates,      \* number of reconciliations after the first
  keyOf,        \* what the key expression yields for each item now
  bctx,         \* by node: the item and index in the context object that
                \* the bindings of the node's instance evaluate against
  live,         \* nodes whose bindings have been created and not destroyed
  records,      \* removedNodes of the MutationRecords not yet delivered
  rekeys        \* number of assignments to key fields made so far

wrapVars == << kind, target, child, reactiveMap, sigKeys, cell, nextId,
              wlast, firstWrap, firstGet, pops >>

arrVars == << elems, version, alast, aops >>

listVars == << instances, dom, nextEl, rlast, updates, keyOf, rekeys,
              bctx, live, records >>

engineVars == << val, subs, deps, cleanups, active, scheduled, made, body,
                 pending, isScheduled, isFlushing, raf, current, stack,
                 cval, dirty, overridden, lastReads, notifiedBy, seen,
                 stopCalled, everRead, handed, log, tick, ops,
                 calls, depChanged, stale, rafq, ticks, threw, onError,
                 shadow >>

\* The engine state as one record, handed through the nested calls.
State ==
  [ val |-> val, subs |-> subs, deps |-> deps, cleanups |-> cleanups,
    active |-> active, scheduled |-> scheduled, made |-> made, body |-> body,
    pending |-> pending, isScheduled |-> isScheduled,
    isFlushing |-> isFlushing, raf |-> raf, current |-> current,
    stack |-> stack, cval |-> cval, dirty |-> dirty,
    overridden |-> overridden, lastReads |-> lastReads,
    notifiedBy |-> notifiedBy, seen |-> seen, stopCalled |-> stopCalled,
    everRead |-> everRead, handed |-> handed, log |-> << >>,
    calls |-> calls, depChanged |-> depChanged, stale |-> stale,
    rafq |-> rafq, ticks |-> ticks, threw |-> threw, onError |-> onError,
    shadow |-> shadow,
    exc |-> "none" ]         \* the exception in flight, if any

Becomes(s) ==
  /\ val' = s.val /\ subs' = s.subs /\ deps' = s.deps
  /\ cleanups' = s.cleanups /\ active' = s.active
  /\ scheduled' = s.scheduled /\ made' = s.made /\ body' = s.body
  /\ pending' = s.pending /\ isScheduled' = s.isScheduled
  /\ isFlushing' = s.isFlushing /\ raf' = s.raf /\ current' = s.current
  /\ stack' = s.stack /\ cval' = s.cval /\ dirty' = s.dirty
  /\ overridden' = s.overridden /\ lastReads' = s.lastReads
  /\ notifiedBy' = s.notifiedBy /\ seen' = s.seen
  /\ stopCalled' = s.stopCalled /\ everRead' = s.everRead
  /\ handed' = s.handed /\ log' = s.log
  /\ calls' = s.calls /\ depChanged' = s.depChanged /\ stale' = s.stale
  /\ Len(s.ticks) <= MaxTicks
  /\ rafq' = s.rafq /\ ticks' = s.ticks /\ threw' = s.threw
  /\ onError' = s.onError /\ shadow' = s.shadow
  /\ UNCHANGED wrapVars
  /\ UNCHANGED arrVars
  /\ UNCHANGED listVars

\* ------------------------------------------------------------------------
\* Helpers
\* ------------------------------------------------------------------------
Range(q) == { q[i] : i \in 1..Len(q) }

RECURSIVE RemoveFirst(_, _)
RemoveFirst(q, x) ==
  IF q = << >> THEN << >>
  ELSE IF Head(q) = x THEN Tail(q)
  ELSE << Head(q) >> \o RemoveFirst(Tail(q), x)

\* One entry of the history log.
Ev(t, e, a, a2, a3, b, c) ==
  [t |-> t, e |-> e, a |-> a, a2 |-> a2, a3 |-> a3, b |-> b, c |-> c]

Note(s, ev) == [s EXCEPT !.log = Append(@, ev)]

Live(s) == { c \in Effs : s.made[c] /\ ~s.stopCalled[c] }

\* The nested calls of the engine are mutually recursive.
RECURSIVE EffectRun(_, _, _), TrackerTrack(_, _), EffectFn(_, _),
          RunBody(_, _, _), Exec(_, _, _), Flush(_), FlushLoop(_, _),
          EffectRunCall(_, _, _), ComputedEffectFn(_, _), Getter(_, _),
          ComputedNew(_, _), ComputedGet(_, _), ComputedRecompute(_, _),
          ReactiveGetComputed(_, _)

\* ------------------------------------------------------------------------
\* BatchScheduler.schedule
\* ------------------------------------------------------------------------
\* An entry of the host's callback queue: the scheduler's flush, or the
\* outer / inner callback of the nextTick() call number id.
Callback(k, id) == [k |-> k, id |-> id]

\* this.isScheduled = true; requestAnimationFrame(() => this.flush())
RequestFlush(s) ==
  [s EXCEPT !.isScheduled = TRUE, !.raf = @ + 1,
            !.rafq = Append(@, Callback("flush", 0))]

\* A flush takes a computation up from the snapshot.
TakeUp(s, e) ==
  [s EXCEPT !.handed = @ \ {e},
            !.ticks = [i \in DOMAIN @ |-> [@[i] EXCEPT !.wait = @ \ {e}]]]

\* nextTick(callback) with a single requestAnimationFrame.
NextTickSingle(s) ==
  [s EXCEPT !.ticks = Append(@, [wait |-> s.handed, runs |-> 0, left |-> {},
                                 init |-> s.handed, inFlush |-> s.isFlushing]),
            !.rafq = Append(@, Callback("inner", Len(s.ticks) + 1))]

\* nextTick(callback): the Promise executor registers the outer callback.
NextTickCall(s) ==
  [s EXCEPT !.ticks = Append(@, [wait |-> s.handed, runs |-> 0, left |-> {},
                                 init |-> s.handed, inFlush |-> s.isFlushing]),
            !.rafq = Append(@, Callback("outer", Len(s.ticks) + 1))]

Schedule(s, e) ==
  LET s1 == [s EXCEPT !.pending =
                 IF e \in Range(@) THEN @ ELSE Append(@, e),
                      !.handed = @ \cup {e}]
  IN  IF ~s1.isScheduled /\ ~s1.isFlushing
        THEN RequestFlush(s1)
        ELSE s1

\* ------------------------------------------------------------------------
\* Signal
\* ------------------------------------------------------------------------
\* A subscriber that queues the effect on every notification, without the
\* scheduled flag and without the scheduler's de-duplication.
SubscriberCallbackPerWrite(s, e, x) ==
  LET s0 == [s EXCEPT !.notifiedBy[e] = @ \cup {x}]
      s1 == [s0 EXCEPT !.pending = Append(@, e), !.handed = @ \cup {e}]
  IN  IF ~s0.active[e] THEN s0
      ELSE IF ~s1.isScheduled /\ ~s1.isFlushing
        THEN RequestFlush(s1)
        ELSE s1

\* A subscriber that runs the effect at once instead of scheduling it.
SubscriberCallbackSync(s, e, x) ==
  LET s0 == [s EXCEPT !.notifiedBy[e] = @ \cup {x}]
  IN  IF s0.active[e] /\ ~s0.scheduled[e]
        THEN EffectRun(s0, e, "sync")
        ELSE s0

\* The callback Effect.track subscribes: schedule, never run.
SubscriberCallback(s, e, x) ==
  LET s0 == [s EXCEPT !.notifiedBy[e] = @ \cup {x}]
  IN  IF s0.active[e] /\ ~s0.scheduled[e]
        THEN Schedule([s0 EXCEPT !.scheduled[e] = TRUE], e)
        ELSE s0

\* A callback that user code subscribed to the cell x, called with
\* (newValue, oldValue).  _subscribers is a Set: add and delete of u2.
UserCallback(s, u, x, new, old) ==
  LET s1 == Note(s, Ev("cb", u, {}, {}, {}, << new, old >>, FALSE))
  IN  CASE u = "u1" -> [s1 EXCEPT !.exc = "error"]
        [] u = "u3" -> IF "u2" \in Range(s1.subs[x]) THEN s1
                       ELSE [s1 EXCEPT !.subs[x] = Append(@, "u2")]
        [] u = "u4" -> [s1 EXCEPT !.subs[x] = RemoveFirst(@, "u2")]
        [] OTHER    -> s1

\* callback(newValue, oldValue) with no try block around it.
InvokeNoCatch(s, c, x, new, old) ==
  IF s.exc # "none" THEN s
  ELSE IF c \in Effs THEN SubscriberCallback(s, c, x)
  ELSE UserCallback(s, c, x, new, old)

\* try { callback(newValue, oldValue) } catch (error) { console.error(...) }
Invoke(s, c, x, new, old) ==
  LET s1 == IF c \in Effs THEN SubscriberCallback(s, c, x)
            ELSE UserCallback(s, c, x, new, old)
  IN  IF s1.exc = "none" THEN s1
      ELSE Note([s1 EXCEPT !.exc = "none"],
                Ev("suberr", c, {}, {}, {}, << >>, FALSE))

\* this._subscribers.forEach(...) on the Set itself: an entry added during
\* the iteration is visited at the end, one deleted before its turn is not
\* visited.
RECURSIVE NotifyEachLive(_, _, _, _, _)
NotifyEachLive(s, snapshot, x, new, old) ==
  IF snapshot = << >> THEN s
  ELSE LET s2 == Invoke(s, Head(snapshot), x, new, old)
           Stays(c) == c \in Range(s2.subs[x])
           Added(c) == c \notin Range(s.subs[x])
       IN  NotifyEachLive(s2, SelectSeq(Tail(snapshot), Stays)
                                \o SelectSeq(s2.subs[x], Added),
                          x, new, old)

RECURSIVE NotifyEach(_, _, _, _, _)
NotifyEach(s, snapshot, x, new, old) ==
  IF snapshot = << >> THEN s
  ELSE NotifyEach(Invoke(s, Head(snapshot), x, new, old), Tail(snapshot),
                  x, new, old)

\* Signal._notify(newValue, oldValue): iterate over
\* Array.from(this._subscribers).
SignalNotify(s, x, new, old) ==
  LET s0 == Note(s, Ev("write", x, Range(s.subs[x]),
                       { c \in Effs : x \in s.lastReads[c] }, Live(s),
                       << s.current, new, old, s.subs[x] >>, FALSE))
      s1 == [s0 EXCEPT
               !.depChanged = [d \in Comps |-> @[d] \/ x \in s.deps[d]],
               !.stale = [d \in Comps |->
                            IF x \in s.deps[d] THEN x ELSE @[d]]]
  IN  NotifyEach(s1, s.subs[x], x, new, old)

\* A setter without the test for an unchanged value.
SignalSetAlways(s, x, v) ==
  SignalNotify([s EXCEPT !.val[x] = v], x, v, s.val[x])

\* Signal value setter.
SignalSet(s, x, v) ==
  IF s.val[x] = v
    THEN Note(s, Ev("same", x, Range(s.subs[x]), {}, {}, << s.current >>,
                    FALSE))
    ELSE SignalNotify([s EXCEPT !.val[x] = v], x, v, s.val[x])

\* Signal.subscribe
SignalSubscribe(s, x, e) == [s EXCEPT !.subs[x] = Append(@, e)]

\* The closure returned by Signal.subscribe.
Unsubscribe(s, x, e) == [s EXCEPT !.subs[x] = RemoveFirst(@, e)]

\* Effect.track without the test dependencies.has(signal).
EffectTrackAlways(s, e, x) ==
  [SignalSubscribe([s EXCEPT !.deps[e] = @ \cup {x}], x, e)
     EXCEPT !.cleanups[e] = Append(@, x)]

\* Effect.track
EffectTrack(s, e, x) ==
  IF x \in s.deps[e] THEN s
  ELSE [SignalSubscribe([s EXCEPT !.deps[e] = @ \cup {x}], x, e)
          EXCEPT !.cleanups[e] = Append(@, x)]

NoteRead(s, x) ==
  [s EXCEPT !.lastReads[s.current] = @ \cup {x},
            !.everRead[s.current] = @ \cup {x}]

\* Signal value getter (the value itself is s.val[x]).
SignalGet(s, x) ==
  IF s.current # Null THEN EffectTrack(NoteRead(s, x), s.current, x) ELSE s

\* ------------------------------------------------------------------------
\* Effect
\* ------------------------------------------------------------------------
RECURSIVE UnsubscribeAll(_, _, _)
UnsubscribeAll(s, e, q) ==
  IF q = << >> THEN s
  ELSE UnsubscribeAll(Unsubscribe(s, Head(q), e), e, Tail(q))

\* Effect.cleanup
EffectCleanup(s, e) ==
  [UnsubscribeAll(s, e, s.cleanups[e]) EXCEPT !.cleanups[e] = << >>]

\* Effect.stop that unsubscribes but leaves the effect active.
EffectStopStaysActive(s, e) ==
  LET s0 == Note([s EXCEPT !.stopCalled[e] = TRUE],
                 Ev("stop", e, {}, {}, {}, << >>, FALSE))
      s2 == EffectCleanup(s0, e)
  IN  [s2 EXCEPT !.deps[e] = {}]

\* Effect.stop
EffectStop(s, e) ==
  LET s0 == Note([s EXCEPT !.stopCalled[e] = TRUE],
                 Ev("stop", e, {}, {}, {}, << >>, FALSE))
      s1 == [s0 EXCEPT !.active[e] = FALSE]
      s2 == EffectCleanup(s1, e)
  IN  [s2 EXCEPT !.deps[e] = {}]

\* Effect.run that keeps the subscriptions of the previous run.
EffectRunNoCleanup(s, e, via) ==
  IF ~s.active[e] THEN s
  ELSE LET s1 == [s EXCEPT !.scheduled[e] = FALSE]
           s4 == Note([s1 EXCEPT !.lastReads[e] = {}, !.notifiedBy[e] = {},
                                 !.seen[e] = Undef],
                      Ev("run", e, s.notifiedBy[e], {}, {}, << via >>,
                         s.stopCalled[e]))
       IN  TrackerTrack(s4, e)

\* An error boundary that stops the effect whose body threw.
ErrorBoundaryStops(s, e) ==
  IF s.exc = "none" THEN s
  ELSE [EffectCleanup([s EXCEPT !.exc = "none", !.active[e] = FALSE], e)
          EXCEPT !.deps[e] = {}]

\* The function ErrorBoundary.wrap returns, after fn() has returned or
\* thrown: _handleError logs errorInfo.error.message and calls onError
\* with {error, context, ...} inside a try block of its own.
\* Reading .message of a thrown null raises a TypeError inside the catch
\* block of wrap, before onError is reached, and that one leaves safeRun().
ErrorBoundaryWrap(s, e) ==
  IF s.exc = "none" THEN s
  ELSE IF s.exc = "null"
    THEN Note([s EXCEPT !.exc = "TypeError"],
              Ev("escape", e, {}, {}, {}, << >>, FALSE))
  ELSE Note([s EXCEPT !.exc = "none"],
            Ev("handler", e, {}, {}, {}, << s.exc, "effect" >>,
               s.onError = "throws"))

\* Effect.run as defined by the class.
EffectRun(s, e, via) ==
  IF ~s.active[e] THEN s
  ELSE LET s1 == [s EXCEPT !.scheduled[e] = FALSE]
           s2 == EffectCleanup(s1, e)
           s3 == [s2 EXCEPT !.deps[e] = {}]
           s4 == Note([s3 EXCEPT !.lastReads[e] = {}, !.notifiedBy[e] = {},
                                 !.seen[e] = Undef, !.threw[e] = FALSE],
                      Ev("run", e, s.notifiedBy[e], {},
                         IF s.threw[e] THEN {e} ELSE {}, << via >>,
                         s.stopCalled[e]))
       IN  ErrorBoundaryWrap(TrackerTrack(s4, e), e)

\* The end of EffectTracker.track without finally: an exception skips it.
TrackerLeaveNoFinally(s2, e, prev, before) ==
  LET s3 == IF s2.exc # "none" THEN s2
            ELSE [s2 EXCEPT !.current = prev,
                            !.stack = SubSeq(@, 1, Len(@) - 1)]
  IN  Note(s3, Ev("untrack", e, {}, {}, {}, << Len(before), s2.exc >>,
                  s3.current = prev /\ s3.stack = before))

\* The finally block of EffectTracker.track, entered after fn() has
\* returned or thrown.  The log keeps the depth of the call, the exception
\* in flight, and whether current and stack are what they were before.
TrackerLeave(s2, e, prev, before) ==
  LET s3 == [s2 EXCEPT !.current = prev, !.stack = SubSeq(@, 1, Len(@) - 1)]
  IN  Note(s3, Ev("untrack", e, {}, {}, {}, << Len(before), s2.exc >>,
                  s3.current = prev /\ s3.stack = before))

\* EffectTracker.track (try / finally)
TrackerTrack(s, e) ==
  TrackerLeave(EffectFn([s EXCEPT !.stack = Append(@, s.current),
                                  !.current = e], e),
               e, s.current, s.stack)

\* this.fn
EffectFn(s, e) ==
  IF e \in Comps THEN ComputedEffectFn(s, e)
  ELSE RunBody(s, e, Prog(s.body[e], e))

RunBody(s, e, is) ==
  IF is = << >> \/ s.exc # "none" THEN s
  ELSE RunBody(Exec(s, e, Head(is)), e, Tail(is))

\* if (x.value) y.value, after x.value has been read
ThenRead(s1, i) == IF s1.val[i.x] # 0 THEN SignalGet(s1, i.y) ELSE s1

\* y.value = x.value, after x.value has been read
ThenWrite(s1, i) == SignalSet(s1, i.y, s1.val[i.x])

\* if (x.value) throw ..., after x.value has been read
ThenThrow(s1, e, i) ==
  IF s1.val[i.x] # 0
    THEN Note([s1 EXCEPT !.exc = i.y, !.threw[e] = TRUE],
              Ev("throw", e, {}, {}, {}, << i.y >>, FALSE))
    ELSE s1

\* if (x.value && handle) handle.stop(), after x.value has been read.
\* The handle of y is what EffectTracker.create(fn) returned: it is still
\* unset while the constructor makes the first run of y.
ThenStop(s1, i) ==
  LET constructing == \E k \in 1..Len(s1.log) :
                        /\ s1.log[k].t = "run" /\ s1.log[k].e = i.y
                        /\ s1.log[k].b = << "new" >>
  IN  IF s1.val[i.x] # 0 /\ ~constructing THEN EffectStop(s1, i.y) ELSE s1

\* the body keeps the value it read from the computed property
Keep(r, e) == [r.st EXCEPT !.seen[e] = r.v]

\* The function that the get trap of an array wrapper returns for a
\* mutation method, called: after Array.prototype[m].apply(target, args)
\* it assigns target.length to lengthSignal, versionSignal.value + 1 to
\* versionSignal, and a new object to changeSignal.  Numbers are kept
\* within 0..MaxVal, and the new object is a value other than the last one.
MutationMethod(s, m) ==
  LET Succ(n) == (n + 1) % (MaxVal + 1)
      s1 == SignalSet(s, "length", IF m = "push" THEN Succ(s.val["length"])
                                   ELSE s.val["length"])
      s2 == SignalGet(s1, "__version")
      s3 == SignalSet(s2, "__version", Succ(s2.val["__version"]))
  IN  SignalSet(s3, "__arrayChange", Succ(s3.val["__arrayChange"]))

Exec(s, e, i) ==
  CASE i.op = "read"   -> SignalGet(s, i.x)
    [] i.op = "mutate" -> MutationMethod(s, i.x)
    [] i.op = "readif" -> ThenRead(SignalGet(s, i.x), i)
    [] i.op = "write"  -> SignalSet(s, i.x, i.v)
    [] i.op = "copy"   -> ThenWrite(SignalGet(s, i.x), i)
    [] i.op = "stop"   -> IF s.made[i.x] THEN EffectStop(s, i.x) ELSE s
    [] i.op = "stopif" -> ThenStop(SignalGet(s, i.x), i)
    [] i.op = "flushSync" -> Flush(s)
    [] i.op = "readc"  -> Keep(ReactiveGetComputed(s, i.x), e)
    [] i.op = "nextTick" -> NextTickCall(s)
    [] i.op = "throwif" -> ThenThrow(SignalGet(s, i.x), e, i)
    [] OTHER -> s

\* effect.run() as the scheduler calls it: a ComputedSignal replaces the
\* method of its effect by one that only sets dirty.
EffectRunCall(s, e, via) ==
  IF e \in Comps /\ s.overridden[e]
    THEN Note([s EXCEPT !.dirty[e] = TRUE],
              Ev("mark", e, s.notifiedBy[e], {}, {}, << via >>,
                 s.stopCalled[e]))
    ELSE EffectRun(s, e, via)

\* ------------------------------------------------------------------------
\* BatchScheduler.flush
\* ------------------------------------------------------------------------
\* effects.forEach that walks the snapshot from its last element.
RECURSIVE FlushLoopReversed(_, _)
FlushLoopReversed(s, effects) ==
  IF effects = << >> THEN s
  ELSE LET last == effects[Len(effects)]
           s0 == TakeUp(s, last)
       IN  FlushLoopReversed(IF s0.active[last]
                               THEN EffectRunCall(s0, last, "flush")
                               ELSE s0,
                             SubSeq(effects, 1, Len(effects) - 1))

\* effects.forEach that stops after the first element of the snapshot.
FlushLoopFirstOnly(s, effects) ==
  IF effects = << >> THEN s
  ELSE LET s0 == [s EXCEPT !.handed = @ \ Range(effects)]
       IN  IF s0.active[Head(effects)]
             THEN EffectRunCall(s0, Head(effects), "flush")
             ELSE s0

\* effects.forEach(effect => { if (effect.active) effect.run(); })
FlushLoop(s, effects) ==
  IF effects = << >> \/ s.exc # "none" THEN s
  ELSE LET s0 == TakeUp(s, Head(effects))
       IN  FlushLoop(IF s0.active[Head(effects)]
                       THEN EffectRunCall(s0, Head(effects), "flush")
                       ELSE s0,
                     Tail(effects))

\* The end of flush(): clear isFlushing and, if effects were scheduled
\* meanwhile, arrange another frame.
FlushEnd(s2) ==
  LET s3 == Note([s2 EXCEPT !.isFlushing = FALSE],
                 Ev("end", Null, {}, {}, {}, << >>, FALSE))
  IN  IF s2.exc # "none" THEN s2      \* an exception has left forEach
      ELSE IF Len(s3.pending) > 0 /\ ~s3.isScheduled
        THEN RequestFlush(s3)
        ELSE s3

\* flush() without the final test that arranges another frame.
FlushNoRearm(s) ==
  IF s.isFlushing
    THEN Note(s, Ev("noop", Null, {}, {}, { c \in Effs : s.active[c] },
                    s.pending, FALSE))
  ELSE LET effects == s.pending
           s0 == Note(s, Ev("flush", Null,
                            { c \in Live(s) : s.notifiedBy[c] # {} },
                            { c \in Effs : s.stopCalled[c] },
                            { c \in Effs : s.active[c] },
                            effects, FALSE))
           s1 == [s0 EXCEPT !.isFlushing = TRUE, !.isScheduled = FALSE,
                            !.pending = << >>,
                            !.stale = [d \in Comps |-> Null]]
           s2 == FlushLoop(s1, effects)
       IN  Note([s2 EXCEPT !.isFlushing = FALSE],
                Ev("end", Null, {}, {}, {}, << >>, FALSE))

\* BatchScheduler.flush (flushSync() is a call of flush())
Flush(s) ==
  IF s.isFlushing
    THEN Note(s, Ev("noop", Null, {}, {}, { c \in Effs : s.active[c] },
                    s.pending, FALSE))
  ELSE LET effects == s.pending
           s0 == Note(s, Ev("flush", Null,
                            { c \in Live(s) : s.notifiedBy[c] # {} },
                            { c \in Effs : s.stopCalled[c] },
                            { c \in Effs : s.active[c] },
                            effects, FALSE))
           s1 == [s0 EXCEPT !.isFlushing = TRUE, !.isScheduled = FALSE,
                            !.pending = << >>,
                            !.stale = [d \in Comps |-> Null]]
           s2 == FlushLoop(s1, effects)
       IN  FlushEnd(s2)

\* ------------------------------------------------------------------------
\* ComputedSignal
\* ------------------------------------------------------------------------
\* The accessor of d:  p ? a : b   (each operand read through Signal.value)
GetterBranch(s1) ==
  IF s1.val["p"] # 0
    THEN [st |-> SignalGet(s1, "a"), v |-> s1.val["a"]]
    ELSE [st |-> SignalGet(s1, "b"), v |-> s1.val["b"]]

Getter(s, d) ==
  GetterBranch(SignalGet([s EXCEPT !.calls[d] = @ + 1], "p"))

\* this._notify(newValue, this._value), after this._value = newValue
ComputedNotify(s, d) == SignalNotify(s, d, s.cval[d], s.cval[d])

\* The function given to new Effect in _setupEffect.
\* "if (this._value !== newValue) { this._value = newValue; this._notify() }
\*  this.dirty = false": the same statements in both places.
ComputedStore(r, d) ==
  LET s1 == IF r.st.cval[d] # r.v
              THEN ComputedNotify([r.st EXCEPT !.cval[d] = r.v], d)
              ELSE r.st
  IN  [s1 EXCEPT !.dirty[d] = FALSE]

ComputedEffectFn(s, d) == ComputedStore(Getter(s, d), d)

\* ComputedSignal constructor and _setupEffect.
ComputedNew(s, d) ==
  LET s1 == [s EXCEPT !.made[d] = TRUE, !.cval[d] = Undef, !.dirty[d] = TRUE,
                      !.active[d] = TRUE, !.scheduled[d] = FALSE]
      s2 == EffectRun(s1, d, "new")
  IN  [s2 EXCEPT !.overridden[d] = TRUE]

\* ComputedSignal._recompute: the accessor is called as it is, under
\* whatever EffectTracker.current is at the time of the read.  The log
\* keeps the cells the accessor read, the dependencies of the computed's
\* effect afterwards, those the reading computation gained, and whether
\* the value obtained differs from the cached one.
RecomputeNote(s1, s, d) ==
  Note(s1, Ev("recompute", d,
              {"p", IF s.val["p"] # 0 THEN "a" ELSE "b"}, s1.deps[d],
              IF s.current = Null THEN {}
              ELSE s1.deps[s.current] \ s.deps[s.current],
              << s.current >>, s1.cval[d] # s.cval[d]))

ComputedRecompute(s, d) == RecomputeNote(ComputedStore(Getter(s, d), d), s, d)

\* ComputedSignal value getter; returns the new state and the value.
ComputedResult(s2, d) == [st |-> s2, v |-> s2.cval[d]]

ComputedGetTrack(s1, d) ==
  ComputedResult(IF s1.current # Null
                   THEN EffectTrack(NoteRead(s1, d), s1.current, d)
                   ELSE s1,
                 d)

\* A value getter that evaluates the accessor on every read.
ComputedGetEager(s, d) == ComputedGetTrack(ComputedRecompute(s, d), d)

ComputedGet(s, d) ==
  ComputedGetTrack(IF s.dirty[d] THEN ComputedRecompute(s, d) ELSE s, d)

\* The get trap of reactive() for a property defined by a getter:
\* whatever signals.get(property) holds is read through its value getter.
ReactiveGetComputed(s, d) ==
  IF s.shadow[d] THEN ComputedGetTrack(s, d)
  ELSE ComputedGet(IF s.made[d] THEN s ELSE ComputedNew(s, d), d)

\* The set trap of reactive() for a property defined by a getter, with a
\* primitive value: oldValue = target[property] evaluates the accessor on
\* the raw target; Reflect.set stores nothing; then the signal under the
\* key is created, or assigned through its value setter (the one of
\* ComputedSignal only warns).
ReactiveSetComputed(s, d, v) ==
  LET oldValue == IF s.val["p"] # 0 THEN s.val["a"] ELSE s.val["b"]
  IN  IF oldValue = v THEN s
      ELSE IF s.made[d]
        THEN Note(s, Ev("warn", d, {}, {}, {}, << v >>, FALSE))
      ELSE IF ~s.shadow[d]
        THEN [s EXCEPT !.shadow[d] = TRUE, !.cval[d] = v]
      ELSE IF s.cval[d] = v THEN s
      ELSE SignalNotify([s EXCEPT !.cval[d] = v], d, v, s.cval[d])

\* model.d read by user code: the value obtained is kept in the log, with
\* the dependency that changed since the latest flush began, if any.
UserRead(r, s, d) ==
  Note(r.st, Ev("readc", d, {s.stale[d]} \ {Null}, {}, {}, << r.v >>,
                s.made[d]))

\* new Effect(fn)
EffectNew(s, e, b) ==
  EffectRun([s EXCEPT !.made[e] = TRUE, !.body[e] = b, !.active[e] = TRUE,
                      !.scheduled[e] = FALSE],
            e, "new")


\* ------------------------------------------------------------------------
\* reactive() and reactiveArray(): the identity of wrappers.
\* Heap addresses are 1..MaxObj; 0 stands for a primitive value and Undef
\* for undefined, which is also what an absent property reads as.
\* ------------------------------------------------------------------------
RawCount == 3
MaxObj == RawCount + MaxProxies
ObjIds == 1..MaxObj

Heap ==
  [ kind |-> kind, target |-> target, child |-> child,
    reactiveMap |-> reactiveMap, sigKeys |-> sigKeys, cell |-> cell,
    nextId |-> nextId ]

\* Array.isArray sees through a Proxy.
RECURSIVE IsArray(_, _)
IsArray(h, o) ==
  IF o <= 0 THEN FALSE
  ELSE IF h.kind[o] = "proxy" THEN IsArray(h, h.target[o])
  ELSE h.kind[o] = "arr"

\* new Proxy(t, ...) followed by _reactiveMap.set(t, proxy) and
\* _rawMap.set(proxy, t).
NewProxy(h, t) ==
  LET n == h.nextId
  IN  IF n > MaxObj      \* beyond the bound: HeapBecomes refuses the call
        THEN [st |-> [h EXCEPT !.nextId = n + 1], res |-> 0]
        ELSE [st |-> [h EXCEPT !.kind[n] = "proxy", !.target[n] = t,
                               !.reactiveMap[t] = n, !.nextId = n + 1],
              res |-> n]

\* reactiveArray(arr)
ReactiveArray(h, t) ==
  NewProxy([h EXCEPT !.sigKeys[t] =
                        @ \cup {"__arrayChange", "length", "__version"}], t)

\* reactive(target)
Reactive(h, t) ==
  IF IsArray(h, t) THEN ReactiveArray(h, t)
  ELSE IF t > 0 /\ h.reactiveMap[t] # 0
    THEN [st |-> h, res |-> h.reactiveMap[t]]
  ELSE IF t <= 0 THEN [st |-> h, res |-> t]
  ELSE NewProxy(h, t)

\* The get trap of a wrapper w for its data property (objects) or element
\* (arrays).  Reflect.get on a target that is itself a Proxy enters the
\* target's own get trap.  An object wrapper creates the Signal of the
\* property with the value it read, unless there is one.
RECURSIVE ProxyGet(_, _)
ProxyGet(h, w) ==
  LET t  == h.target[w]
      r  == IF h.kind[t] = "proxy" THEN ProxyGet(h, t)
            ELSE [st |-> h, res |-> h.child[t]]
      h1 == IF IsArray(h, w) \/ "child" \in r.st.sigKeys[t] THEN r.st
            ELSE [r.st EXCEPT !.sigKeys[t] = @ \cup {"child"},
                              !.cell[t] = r.res]
  IN  IF r.res > 0 THEN Reactive(h1, r.res) ELSE [st |-> h1, res |-> r.res]

\* The set trap of an object wrapper w, for the value v.  oldValue is read
\* from the target, and Reflect.set writes to it: both enter the traps of a
\* target that is itself a Proxy.  The result tells whether the setter of
\* an existing Signal was given a value other than the one it held, which
\* is when it notifies its subscribers, and which value was stored.
RECURSIVE ProxySet(_, _, _)
ProxySet(h, w, v) ==
  LET t     == h.target[w]
      old   == IF h.kind[t] = "proxy" THEN ProxyGet(h, t)
               ELSE [st |-> h, res |-> h.child[t]]
      rv    == IF v > 0 THEN Reactive(old.st, v) ELSE [st |-> old.st, res |-> v]
      inner == IF h.kind[t] = "proxy" THEN ProxySet(rv.st, t, rv.res)
               ELSE [st |-> [rv.st EXCEPT !.child[t] = rv.res],
                     notified |-> FALSE, rv |-> rv.res]
      h3    == inner.st
      has   == "child" \in h3.sigKeys[t]
  IN  IF old.res = rv.res
        THEN [st |-> h3, notified |-> inner.notified, rv |-> rv.res]
        ELSE [st |-> [h3 EXCEPT !.sigKeys[t] = @ \cup {"child"},
                                !.cell[t] = rv.res],
              notified |-> inner.notified \/ (has /\ h3.cell[t] # rv.res),
              rv |-> rv.res]

\* The raw object behind o: the target of the innermost Proxy.
RECURSIVE RawOf(_, _)
RawOf(h, o) == IF h.kind[o] = "proxy" THEN RawOf(h, h.target[o]) ELSE o

\* property in target: a Proxy without a has trap asks its target.
HasChild(h, o) == h.child[RawOf(h, o)] # Undef

\* The deleteProperty trap of an object wrapper w.
RECURSIVE ProxyDelete(_, _)
ProxyDelete(h, w) ==
  LET t     == h.target[w]
      inner == IF h.kind[t] = "proxy" THEN ProxyDelete(h, t)
               ELSE [st |-> [h EXCEPT !.child[t] = Undef], notified |-> FALSE]
      h2    == inner.st
      sig   == HasChild(h, t) /\ "child" \in h2.sigKeys[t]
  IN  [st |-> IF sig THEN [h2 EXCEPT !.cell[t] = Undef] ELSE h2,
       notified |-> inner.notified \/ (sig /\ h2.cell[t] # Undef)]

HeapBecomes(h) ==
  /\ h.nextId <= MaxObj + 1
  /\ kind' = h.kind /\ target' = h.target /\ child' = h.child
  /\ reactiveMap' = h.reactiveMap /\ sigKeys' = h.sigKeys
  /\ cell' = h.cell
  /\ nextId' = h.nextId

\* Three raw values exist: the object 1 = {child: 2}, the array 2 = [3]
\* and the object 3 = {child: <primitive>}.
WrapInit ==
  /\ kind = [o \in ObjIds |->
               IF o = 2 THEN "arr" ELSE IF o <= RawCount THEN "obj" ELSE "free"]
  /\ target = [o \in ObjIds |-> 0]
  /\ child = [o \in ObjIds |-> IF o < RawCount THEN o + 1 ELSE 0]
  /\ reactiveMap = [o \in ObjIds |-> 0]
  /\ sigKeys = [o \in ObjIds |-> {}]
  /\ cell = [o \in ObjIds |-> Undef]
  /\ pops = 0
  /\ nextId = RawCount + 1
  /\ wlast = [op |-> "none", arg |-> 0, res |-> 0, argKind |-> "none",
              notified |-> FALSE]
  /\ firstWrap = [o \in ObjIds |-> 0]
  /\ firstGet = [o \in ObjIds |-> 0]
  /\ elems = << RawCount >>
  /\ version = [o \in ObjIds |-> 0]
  /\ alast = [op |-> "none", w |-> 0, cell |-> 0, len |-> 0]
  /\ aops = 0

KindOf(o) == IF o <= 0 THEN "primitive" ELSE kind[o]

\* user code calls reactive(t)
CallReactive(t) ==
  /\ KindOf(t) # "free"
  /\ LET r == Reactive(Heap, t)
     IN  /\ HeapBecomes(r.st)
         /\ wlast' = [op |-> "reactive", arg |-> t, res |-> r.res,
                      argKind |-> KindOf(t), notified |-> FALSE]
         /\ firstWrap' = IF t # 0 /\ firstWrap[t] = 0
                           THEN [firstWrap EXCEPT ![t] = r.res]
                           ELSE firstWrap
         /\ UNCHANGED << firstGet, pops >>
  /\ UNCHANGED engineVars
  /\ UNCHANGED arrVars
  /\ UNCHANGED listVars

\* user code reads w.child (w[0] for an array wrapper)
GetChild(w) ==
  /\ kind[w] = "proxy"
  /\ LET r == ProxyGet(Heap, w)
     IN  /\ HeapBecomes(r.st)
         /\ wlast' = [op |-> "get", arg |-> w, res |-> r.res,
                      argKind |-> "proxy", notified |-> FALSE]
         /\ firstGet' = IF firstGet[w] = 0
                          THEN [firstGet EXCEPT ![w] = r.res]
                          ELSE firstGet
         /\ UNCHANGED << firstWrap, pops >>
  /\ UNCHANGED engineVars
  /\ UNCHANGED arrVars
  /\ UNCHANGED listVars

\* user code assigns w.child = v through an object wrapper w
SetChild(w, v) ==
  /\ pops < MaxPropOps /\ pops' = pops + 1
  /\ kind[w] = "proxy" /\ ~IsArray(Heap, w)
  /\ KindOf(v) # "free"
  /\ LET r == ProxySet(Heap, w, v)
     IN  /\ HeapBecomes(r.st)
         /\ wlast' = [op |-> "set", arg |-> w, res |-> r.rv,
                      argKind |-> KindOf(v), notified |-> r.notified]
  /\ UNCHANGED << firstWrap, firstGet >>
  /\ UNCHANGED engineVars
  /\ UNCHANGED arrVars
  /\ UNCHANGED listVars

\* user code evaluates delete w.child on an object wrapper w
DeleteChild(w) ==
  /\ pops < MaxPropOps /\ pops' = pops + 1
  /\ kind[w] = "proxy" /\ ~IsArray(Heap, w)
  /\ LET r == ProxyDelete(Heap, w)
     IN  /\ HeapBecomes(r.st)
         /\ wlast' = [op |-> "delete", arg |-> w, res |-> Undef,
                      argKind |-> "proxy", notified |-> r.notified]
  /\ UNCHANGED << firstWrap, firstGet >>
  /\ UNCHANGED engineVars
  /\ UNCHANGED arrVars
  /\ UNCHANGED listVars

\* ------------------------------------------------------------------------
\* reactiveArray(): the mutating operations and the version Signal.
\* The raw array is heap address 2; its elements are the object RawCount
\* or the primitive 0.  version[t] is the '__version' Signal that
\* reactiveArray(t) finds or creates (with 0) in _signalsMap.get(t) and
\* that the traps of every Proxy around t close over.
\* ------------------------------------------------------------------------
TheArray == 2
Methods == {"push", "pop", "shift", "unshift", "splice", "sort", "reverse"}

\* Array.prototype[m] applied to the elements: push(0), pop(), shift(),
\* unshift(0), splice(0, 1), sort(), reverse().
\* The default sort compares strings: "0" comes before "[object Object]".
Apply(m, q) ==
  LET IsPrimitive(v) == v = 0
      IsObject(v) == v # 0
  IN  CASE m = "push"    -> Append(q, 0)
        [] m = "pop"     -> IF q = << >> THEN q ELSE SubSeq(q, 1, Len(q) - 1)
        [] m = "shift"   -> IF q = << >> THEN q ELSE Tail(q)
        [] m = "unshift" -> << 0 >> \o q
        [] m = "splice"  -> IF q = << >> THEN q ELSE Tail(q)
        [] m = "sort"    -> SelectSeq(q, IsPrimitive) \o SelectSeq(q, IsObject)
        [] m = "reverse" -> [k \in 1..Len(q) |-> q[Len(q) + 1 - k]]
        [] OTHER         -> q

\* The number of [[Set]] calls with an index or 'length' key that
\* Array.prototype[m] makes on its this value, an array of n elements.
\* They reach the set trap when the this value is itself a Proxy.
SetCalls(m, n) ==
  CASE m = "push"    -> 2
    [] m = "pop"     -> 1
    [] m = "shift"   -> IF n = 0 THEN 1 ELSE n
    [] m = "unshift" -> n + 2
    [] m = "splice"  -> IF n = 0 THEN 1 ELSE n
    [] m = "sort"    -> n
    [] m = "reverse" -> 2 * (n \div 2)
    [] OTHER         -> 0

\* The set trap of the Proxy w for an index or 'length' key:
\* Reflect.set(target, ...) enters the trap of a target that is a Proxy;
\* then "versionSignal.value = versionSignal.value + 1".
RECURSIVE TrapSet(_, _)
TrapSet(ver, w) ==
  LET t  == target[w]
      v1 == IF kind[t] = "proxy" THEN TrapSet(ver, t) ELSE ver
  IN  [v1 EXCEPT ![t] = @ + 1]

RECURSIVE TrapSetTimes(_, _, _)
TrapSetTimes(ver, w, n) ==
  IF n = 0 THEN ver ELSE TrapSetTimes(TrapSet(ver, w), w, n - 1)

\* A mutation method that touches the version only when the length changed.
MethodVersionOnLength(ver, w, m, n) ==
  LET t  == target[w]
      v1 == IF kind[t] = "proxy" THEN TrapSetTimes(ver, t, SetCalls(m, n))
            ELSE ver
  IN  IF Len(Apply(m, elems)) # n THEN [v1 EXCEPT ![t] = @ + 1] ELSE v1

\* The function the get trap of w returns for a mutation method, called:
\* Array.prototype[m].apply(target, args), then the version increment.
MethodVersion(ver, w, m, n) ==
  LET t  == target[w]
      v1 == IF kind[t] = "proxy" THEN TrapSetTimes(ver, t, SetCalls(m, n))
            ELSE ver
  IN  [v1 EXCEPT ![t] = @ + 1]

ArrayBecomes(q) ==
  /\ aops < MaxArrOps /\ aops' = aops + 1
  /\ Len(q) <= MaxLen
  /\ elems' = q
  /\ child' = [child EXCEPT ![TheArray] = IF q = << >> THEN 0 ELSE q[1]]
  /\ UNCHANGED << kind, target, reactiveMap, sigKeys, cell, nextId,
                  wlast, firstWrap, firstGet, pops >>
  /\ UNCHANGED engineVars
  /\ UNCHANGED listVars

\* user code calls w.push(0), w.pop(), ... on an array wrapper w
CallMethod(w, m) ==
  /\ kind[w] = "proxy" /\ IsArray(Heap, w)
  /\ ArrayBecomes(Apply(m, elems))
  /\ version' = MethodVersion(version, w, m, Len(elems))
  /\ alast' = [op |-> m, w |-> w, cell |-> target[w], len |-> Len(elems)]

\* user code assigns w[i] = v
SetIndex(w, i, v) ==
  /\ kind[w] = "proxy" /\ IsArray(Heap, w)
  /\ ArrayBecomes(IF i < Len(elems) THEN [elems EXCEPT ![i + 1] = v]
                  ELSE Append(elems, v))
  /\ version' = TrapSet(version, w)
  /\ alast' = [op |-> "index", w |-> w, cell |-> target[w],
               len |-> Len(elems)]

\* user code assigns w.length = n
SetLength(w, n) ==
  /\ kind[w] = "proxy" /\ IsArray(Heap, w)
  /\ ArrayBecomes([k \in 1..n |-> IF k <= Len(elems) THEN elems[k] ELSE 0])
  /\ version' = TrapSet(version, w)
  /\ alast' = [op |-> "length", w |-> w, cell |-> target[w],
               len |-> Len(elems)]

\* user code that wraps the array, wraps the wrapper it got, and mutates
\* the array through either wrapper
ArrayNext ==
  \/ \E t \in ObjIds :
       /\ IsArray(Heap, t) /\ reactiveMap[t] = 0
       /\ t = TheArray \/ target[t] = TheArray
       /\ CallReactive(t)
  \/ \E w \in ObjIds, m \in Methods : CallMethod(w, m)
  \/ \E w \in ObjIds, i \in 0..MaxLen, v \in {0, RawCount} :
       i <= Len(elems) /\ SetIndex(w, i, v)
  \/ \E w \in ObjIds, n \in 0..MaxLen : SetLength(w, n)

WrapNext ==
  \/ \E t \in {0} \cup ObjIds : CallReactive(t)
  \/ \E w \in ObjIds : GetChild(w)

\* User code that wraps the raw objects and reads, assigns and deletes
\* their property through the wrappers.  It assigns a primitive, a raw
\* object, or the value it has just read through the same wrapper.
PropNext ==
  \/ \E t \in ObjIds : kind[t] = "obj" /\ CallReactive(t)
  \/ \E w \in ObjIds : ~IsArray(Heap, w) /\ GetChild(w)
  \/ \E w \in ObjIds, v \in {0, RawCount} : SetChild(w, v)
  \/ \E w \in ObjIds : wlast.op = "get" /\ wlast.arg = w
                          /\ SetChild(w, wlast.res)
  \/ \E w \in ObjIds : DeleteChild(w)

\* ------------------------------------------------------------------------
\* LoopBinding: keyed reconciliation of a list against the host tree.
\* The items are the objects 1..MaxKeys; keyOf[i] is what the key
\* expression yields for item i now (i itself until user code changes it).
\* An instance is [key, data, el]: instance.data, the node cloned from the
\* template, and key, the key planned for it by the latest reconciliation.
\* Nodes: the anchor comment, two static siblings around the list, and the
\* clones 1, 2, ...
\* ------------------------------------------------------------------------
Keys == 1..MaxKeys
Throws == 0                       \* evaluating the key expression fails
Node == [anchor |-> 0, before |-> -1, after |-> -2, none |-> -3]
\* null in finalInstances
NoInst == [key |-> 0, data |-> 0, el |-> Node.none]

\* Arrays of distinct items.
DataSeqs ==
  { q \in UNION { [1..n -> Keys] : n \in 0..(MaxKeys - 1) } :
      \A i, j \in 1..Len(q) : i # j => q[i] # q[j] }

\* node.remove(), node.nextSibling and parent.insertBefore(node, ref)
Without(q, x) == LET Keep1(y) == y # x IN SelectSeq(q, Keep1)

NextSibling(q, x) ==
  LET i == CHOOSE k \in 1..Len(q) : q[k] = x
  IN  IF i < Len(q) THEN q[i + 1] ELSE Node.none

InsertBefore(q, x, ref) ==
  LET q1 == Without(q, x)
  IN  IF ref = Node.none THEN Append(q1, x)
      ELSE LET j == CHOOSE k \in 1..Len(q1) : q1[k] = ref
           IN  SubSeq(q1, 1, j - 1) \o << x >> \o SubSeq(q1, j, Len(q1))

\* ExpressionEvaluator.evaluate(keyExpression, [context]): an error raised
\* by the expression is caught inside evaluate, which returns undefined.
Evaluate(item) ==
  [threw |-> FALSE, v |-> IF keyOf[item] = Throws THEN Undef ELSE keyOf[item]]

\* _computeKey, for a list with a :key expression: try { return
\* evaluate(...) } catch { return context.$index }
ComputeKey(item, index) ==
  LET r == Evaluate(item) IN IF r.threw THEN index ELSE r.v

\* A plan that reuses no instance: everything old is removed, everything
\* new is created.
PlanRecreateAll(insts, data) ==
  [ toRemove |-> insts,
    toAdd    |-> [i \in 1..Len(data) |->
                    [key |-> ComputeKey(data[i], i - 1), data |-> data[i],
                     index |-> i - 1]],
    final    |-> [i \in 1..Len(data) |-> NoInst],
    toUpdate |-> << >>, fresh |-> {},
    threw    |-> FALSE ]

\* _buildKeyMap, _buildDataKeyMap and _planOperations.  Both maps are
\* filled in array order, so a key keeps the position of its first
\* occurrence and the value of its last one.  _buildKeyMap evaluates the
\* key of instance.data anew, and reads instance.data of every entry of
\* this.instances: a null entry raises a TypeError.
\* toUpdate holds, for each old key that is also a new one, the node of the
\* instance and the contents of newContext.  The map callback that builds
\* finalInstances assigns a newly made context object to instance.context
\* of every instance it reuses: fresh holds the nodes of these.
PlanOperations(insts, data) ==
  LET OldKey(i) == ComputeKey(insts[i].data, i - 1)
      NewKey(i) == ComputeKey(data[i], i - 1)
      oldKeys == { OldKey(i) : i \in 1..Len(insts) }
      newKeys == { NewKey(i) : i \in 1..Len(data) }
      LastOld(k) == insts[CHOOSE i \in 1..Len(insts) :
                            /\ OldKey(i) = k
                            /\ \A j \in 1..Len(insts) : OldKey(j) = k => j <= i]
      LastNew(k) == CHOOSE i \in 1..Len(data) :
                      /\ NewKey(i) = k
                      /\ \A j \in 1..Len(data) : NewKey(j) = k => j <= i
      Gone(i) == /\ OldKey(i) \notin newKeys
                 /\ \A j \in 1..(i - 1) : OldKey(j) # OldKey(i)
      IsNew(i) == /\ NewKey(i) \notin oldKeys
                  /\ \A j \in 1..(i - 1) : NewKey(j) # NewKey(i)
      Kept(i) == /\ OldKey(i) \in newKeys
                 /\ \A j \in 1..(i - 1) : OldKey(j) # OldKey(i)
      gone == SelectSeq([i \in 1..Len(insts) |-> i], Gone)
      added == SelectSeq([i \in 1..Len(data) |-> i], IsNew)
      kept == SelectSeq([i \in 1..Len(insts) |-> i], Kept)
  IN  IF \E i \in 1..Len(insts) : insts[i] = NoInst
        THEN [toRemove |-> << >>, toAdd |-> << >>, final |-> insts,
              toUpdate |-> << >>, fresh |-> {}, threw |-> TRUE]
      ELSE
      [ toRemove |-> [j \in 1..Len(gone) |-> LastOld(OldKey(gone[j]))],
        toAdd    |-> [j \in 1..Len(added) |->
                        [key |-> NewKey(added[j]),
                         data |-> data[LastNew(NewKey(added[j]))],
                         index |-> LastNew(NewKey(added[j])) - 1]],
        final    |-> [i \in 1..Len(data) |->
                        IF NewKey(i) \in oldKeys
                          THEN [LastOld(NewKey(i)) EXCEPT
                                  !.key = NewKey(i),
                                  !.data = data[LastNew(NewKey(i))]]
                          ELSE NoInst],
        toUpdate |-> [j \in 1..Len(kept) |->
                        [el |-> LastOld(OldKey(kept[j])).el,
                         data |-> data[LastNew(OldKey(kept[j]))],
                         index |-> LastNew(OldKey(kept[j])) - 1]],
        fresh    |-> { LastOld(NewKey(i)).el :
                         i \in { k \in 1..Len(data) : NewKey(k) \in oldKeys } },
        threw    |-> FALSE ]

\* operations.toUpdate.forEach(op =>
\*   Object.assign(op.instance.context, op.newContext)):
\* the object that the bindings hold is written only if instance.context
\* still refers to it.
AssignContexts(plan, c) ==
  [e \in DOMAIN c |->
     IF e \notin plan.fresh
          /\ \E j \in 1..Len(plan.toUpdate) : plan.toUpdate[j].el = e
       THEN LET op == plan.toUpdate[CHOOSE j \in 1..Len(plan.toUpdate) :
                                      plan.toUpdate[j].el = e]
            IN  [item |-> op.data, index |-> op.index]
       ELSE c[e]]

\* operations.toRemove.forEach(instance => instance.element.remove())
RECURSIVE RemoveAll(_, _)
RemoveAll(q, gone) ==
  IF gone = << >> THEN q
  ELSE RemoveAll(Without(q, Head(gone).el), Tail(gone))

\* operations.toAdd.forEach: create the instance, insert its node after the
\* node of the previous final instance, and put it into finalInstances.
\* The record r holds dom, final, nextEl, threw (parentNode was null), and
\* ctxs, the contents of the context objects handed to _createInstance.
RECURSIVE AddAll(_, _)
AddAll(r, adds) ==
  IF adds = << >> \/ r.threw THEN r
  ELSE LET op   == Head(adds)
           el   == r.nextEl
           prev == IF op.index = 0 THEN NoInst ELSE r.final[op.index]
           lost == op.index # 0 /\ prev # NoInst
                     /\ prev.el \notin Range(r.dom)
           d1   == IF op.index = 0
                     THEN InsertBefore(r.dom, el, NextSibling(r.dom, Node.anchor))
                   ELSE IF prev # NoInst /\ ~lost
                     THEN InsertBefore(r.dom, el, NextSibling(r.dom, prev.el))
                   ELSE r.dom
       IN  AddAll([r EXCEPT !.dom = d1, !.nextEl = el + 1, !.threw = lost,
                            !.ctxs = Append(@, [item |-> op.data,
                                                index |-> op.index]),
                            !.final[op.index + 1] =
                               IF lost THEN @
                               ELSE [key |-> op.key, data |-> op.data,
                                     el |-> el]],
                  Tail(adds))

\* A positional pass that moves nothing.
ReorderNothing(q, insts, currentNode) == q

\* _reorderDOM
RECURSIVE ReorderDOM(_, _, _)
ReorderDOM(q, insts, currentNode) ==
  IF insts = << >> THEN q
  ELSE LET el == Head(insts).el
       IN  IF Head(insts) = NoInst
             THEN ReorderDOM(q, Tail(insts), currentNode)
           ELSE IF el # currentNode
             THEN LET q1 == InsertBefore(q, el, currentNode)
                  IN  ReorderDOM(q1, Tail(insts), NextSibling(q1, el))
           ELSE ReorderDOM(q, Tail(insts), NextSibling(q, el))

\* The nodes that _reorderDOM hands to insertBefore.  Each of them is a
\* child of the parent already, so the host queues a MutationRecord with
\* the node among its removedNodes.
RECURSIVE ReorderMoves(_, _, _)
ReorderMoves(q, insts, currentNode) ==
  IF insts = << >> THEN {}
  ELSE LET el == Head(insts).el
       IN  IF Head(insts) = NoInst
             THEN ReorderMoves(q, Tail(insts), currentNode)
           ELSE IF el # currentNode
             THEN LET q1 == InsertBefore(q, el, currentNode)
                  IN  {el} \cup ReorderMoves(q1, Tail(insts),
                                              NextSibling(q1, el))
           ELSE ReorderMoves(q, Tail(insts), NextSibling(q, el))

\* _applyOperations
ApplyOperations(ops0, q, n) ==
  LET r == AddAll([dom |-> RemoveAll(q, ops0.toRemove), final |-> ops0.final,
                   nextEl |-> n, threw |-> ops0.threw, ctxs |-> << >>,
                   moved |-> {}],
                  ops0.toAdd)
  IN  IF r.threw THEN r
      ELSE [r EXCEPT !.dom = ReorderDOM(r.dom, r.final,
                                        NextSibling(r.dom, Node.anchor)),
                     !.moved = ReorderMoves(r.dom, r.final,
                                            NextSibling(r.dom, Node.anchor))]

\* _reconcile(newData), as the body of the binding's effect calls it.
\* instance.cleanup() destroys the bindings of a removed instance;
\* _createInstance makes the bindings of a new one, over the context
\* object of its toAdd entry, and registers them under the new node.
Reconcile(data, name) ==
  LET plan == PlanOperations(instances, data)
      r    == ApplyOperations(plan, dom, nextEl)
      gone == { plan.toRemove[i].el : i \in 1..Len(plan.toRemove) }
      fresh == nextEl..(r.nextEl - 1)
  IN  /\ dom' = r.dom
      /\ nextEl' = r.nextEl
      /\ instances' = IF r.threw THEN instances ELSE r.final
      /\ bctx' = AssignContexts(plan, bctx) \o r.ctxs
      /\ live' = (live \ gone) \cup fresh
      /\ records' = records \cup (gone \cap Range(dom)) \cup r.moved
      /\ rlast' = [op |-> name, old |-> instances, data |-> data,
                   removed |-> { plan.toRemove[i].el :
                                   i \in 1..Len(plan.toRemove) },
                   created |-> nextEl..(r.nextEl - 1), threw |-> r.threw,
                   cleaned |-> [i \in 1..Len(plan.toRemove) |->
                                  plan.toRemove[i].el],
                   keys |-> [i \in 1..Len(data) |->
                               ComputeKey(data[i], i - 1)],
                   fails |-> { i \in 1..Len(data) : keyOf[data[i]] = Throws }]
      /\ UNCHANGED engineVars
      /\ UNCHANGED wrapVars
      /\ UNCHANGED arrVars

\* The key expression yields item i's id, which is i until user code
\* assigns it.
ListInit ==
  /\ instances = << >>
  /\ dom = << Node.before, Node.anchor, Node.after >>
  /\ nextEl = 1
  /\ rlast = [op |-> "none", old |-> << >>, data |-> << >>, removed |-> {},
              created |-> {}, threw |-> FALSE, cleaned |-> << >>,
              keys |-> << >>, fails |-> {}]
  /\ updates = 0
  /\ keyOf = [i \in Keys |-> i]
  /\ rekeys = 0
  /\ bctx = << >>
  /\ live = {}
  /\ records = {}

\* new LoopBinding(...): the effect's first run reconciles the source array.
\* Nothing exists yet, so only the number of items matters.
Mount(n) ==
  /\ rlast.op = "none"
  /\ Reconcile([i \in 1..n |-> i], "mount")
  /\ UNCHANGED << updates, keyOf, rekeys >>

\* The source array has changed and a flush re-runs the effect.  The
\* MutationRecords of the previous reconciliation were delivered at the end
\* of the task that made them.
Update(data) ==
  /\ rlast.op # "none"
  /\ records = {}
  /\ updates < MaxUpdates
  /\ updates' = updates + 1
  /\ Reconcile(data, "update")
  /\ UNCHANGED << keyOf, rekeys >>

\* User code assigns the field of an item that the key expression reads,
\* or deletes the object the expression dereferences.  It does so in a
\* task of its own, after the observer's microtask.
SetKey(item, k) ==
  /\ rekeys < MaxRekeys
  /\ records = {}
  /\ rekeys' = rekeys + 1
  /\ keyOf[item] # k
  /\ keyOf' = [keyOf EXCEPT ![item] = k]
  /\ UNCHANGED << instances, dom, nextEl, rlast, updates, bctx, live,
                  records >>
  /\ UNCHANGED engineVars
  /\ UNCHANGED wrapVars
  /\ UNCHANGED arrVars

\* The host delivers the MutationRecords to the observer of the
\* BindingRegistry: _handleMutations calls cleanup(node) for every removed
\* node, which destroys the bindings registered under it.
Observe ==
  /\ records # {}
  /\ live' = live \ records
  /\ records' = {}
  /\ UNCHANGED << instances, dom, nextEl, rlast, updates, keyOf, rekeys,
                  bctx >>
  /\ UNCHANGED engineVars
  /\ UNCHANGED wrapVars
  /\ UNCHANGED arrVars

ListNext ==
  \/ \E n \in 0..(MaxKeys - 1) : Mount(n)
  \/ \E data \in DataSeqs : Update(data)
  \/ Observe

\* A list whose items change their keys in place.
KeyNext ==
  \/ \E n \in 0..(MaxKeys - 1) : Mount(n)
  \/ \E data \in DataSeqs : Update(data)
  \/ \E item \in Keys, k \in Keys \cup {Throws} : SetKey(item, k)
  \/ Observe

\* ------------------------------------------------------------------------
\* Initial state: the module has been loaded, nothing has been created yet.
\* ------------------------------------------------------------------------
EngineInit ==
  /\ val \in [Cells \cup ArrSigs -> {0}]
  /\ subs = [x \in Sigs |-> << >>]
  /\ deps = [e \in Effs |-> {}]
  /\ cleanups = [e \in Effs |-> << >>]
  /\ active = [e \in Effs |-> FALSE]
  /\ scheduled = [e \in Effs |-> FALSE]
  /\ made = [e \in Effs |-> FALSE]
  /\ body = [e \in PlainEffs |-> NoBody]
  /\ pending = << >>
  /\ isScheduled = FALSE
  /\ isFlushing = FALSE
  /\ raf = 0
  /\ current = Null
  /\ stack = << >>
  /\ cval = [d \in Comps |-> Undef]
  /\ dirty = [d \in Comps |-> FALSE]
  /\ overridden = [d \in Comps |-> FALSE]
  /\ lastReads = [e \in Effs |-> {}]
  /\ notifiedBy = [e \in Effs |-> {}]
  /\ seen = [e \in Effs |-> Undef]
  /\ stopCalled = [e \in Effs |-> FALSE]
  /\ everRead = [e \in Effs |-> {}]
  /\ handed = {}
  /\ log = << >>
  /\ tick = FALSE
  /\ calls = [d \in Comps |-> 0]
  /\ depChanged = [d \in Comps |-> FALSE]
  /\ stale = [d \in Comps |-> Null]
  /\ rafq = << >>
  /\ ticks = << >>
  /\ threw = [e \in Effs |-> FALSE]
  /\ onError = "default"
  /\ shadow = [d \in Comps |-> FALSE]
  /\ ops = 0

Init == EngineInit /\ WrapInit /\ ListInit

\* ------------------------------------------------------------------------
\* Top-level calls
\* ------------------------------------------------------------------------
UserCall == ops < MaxOps /\ ops' = ops + 1 /\ tick' = tick

\* EffectTracker.create(fn)
Create(e, b) ==
  /\ UserCall
  /\ ~made[e]
  /\ Becomes(EffectNew(State, e, b))

\* signal.value = v from user code
WriteCell(x, v) ==
  /\ UserCall
  /\ Becomes(SignalSet(State, x, v))

\* arr.push(v) or arr.reverse() from user code, outside computations
CallMutation(m) ==
  /\ UserCall
  /\ Becomes(MutationMethod(State, m))

\* effect.stop() from user code
Stop(e) ==
  /\ UserCall
  /\ made[e]
  /\ Becomes(EffectStop(State, e))

\* batchScheduler.flushSync() from user code
FlushSync ==
  /\ UserCall
  /\ Becomes(Note(Flush(State), Ev("sync", Null, {}, {}, {}, << >>, FALSE)))

\* model.d read by user code, outside any effect
ReadComputed(d) ==
  /\ UserCall
  /\ Becomes(UserRead(ReactiveGetComputed(State, d), State, d))

\* signal.subscribe(callback) from user code; _subscribers is a Set
Subscribe(x, u) ==
  /\ UserCall
  /\ Becomes(IF u \in Range(subs[x]) THEN State
             ELSE SignalSubscribe(State, x, u))

\* GlobalErrorHandler.setErrorHandler(handler): a handler that returns,
\* or one that throws.
SetErrorHandler(h) ==
  /\ UserCall
  /\ onError # h
  /\ Becomes([State EXCEPT !.onError = h])

\* model.d = v from user code, d being defined by a getter
AssignComputed(d, v) ==
  /\ UserCall
  /\ Becomes(ReactiveSetComputed(State, d, v))

\* The host delivers one animation frame callback.
Frame ==
  /\ raf > 0
  /\ Head(rafq).k = "flush"
  /\ ops' = ops
  /\ tick' = ~tick
  /\ Becomes(Flush([State EXCEPT !.raf = @ - 1, !.rafq = Tail(@)]))

\* nextTick() from user code
NextTick ==
  /\ UserCall
  /\ Becomes(NextTickCall(State))

\* The host delivers the outer callback of a nextTick(): it registers the
\* inner one.
TickOuter ==
  /\ rafq # << >>
  /\ Head(rafq).k = "outer"
  /\ ops' = ops /\ tick' = tick
  /\ Becomes([State EXCEPT
                 !.rafq = Append(Tail(@), Callback("inner", Head(rafq).id))])

\* The host delivers the inner callback: callback() and resolve().
TickInner ==
  /\ rafq # << >>
  /\ Head(rafq).k = "inner"
  /\ ops' = ops /\ tick' = tick
  /\ Becomes([State EXCEPT
                 !.rafq = Tail(@),
                 !.ticks[Head(rafq).id] =
                    [@ EXCEPT !.runs = @ + 1,
                              !.left = ticks[Head(rafq).id].wait]])

Next ==
  \/ \E e \in PlainEffs, b \in BodyNames : Create(e, b)
  \/ \E x \in Cells, v \in Vals : WriteCell(x, v)
  \/ \E e \in PlainEffs : Stop(e)
  \/ FlushSync
  \/ \E d \in Comps : ReadComputed(d)
  \/ Frame

\* The same calls, with effect bodies whose reads and writes form no cycle.
NextAcyclic ==
  \/ \E e \in PlainEffs, b \in AcyclicBodyNames : Create(e, b)
  \/ \E x \in Cells, v \in Vals : WriteCell(x, v)
  \/ \E e \in PlainEffs : Stop(e)
  \/ FlushSync
  \/ \E d \in Comps : ReadComputed(d)
  \/ Frame

\* User code that reads and assigns the getter property.
CompNext ==
  \/ \E e \in PlainEffs : Create(e, "comp")
  \/ \E x \in Cells, v \in Vals : WriteCell(x, v)
  \/ \E d \in Comps : ReadComputed(d)
  \/ \E d \in Comps, v \in Vals : AssignComputed(d, v)
  \/ FlushSync
  \/ Frame

\* User code that also waits with nextTick().
TickNext ==
  \/ \E e \in PlainEffs, b \in TickBodyNames : Create(e, b)
  \/ \E x \in Cells, v \in Vals : WriteCell(x, v)
  \/ FlushSync
  \/ Frame
  \/ NextTick
  \/ TickOuter
  \/ TickInner

\* User code whose computations may throw.
ErrNext ==
  \/ \E e \in PlainEffs, b \in ErrBodyNames : Create(e, b)
  \/ \E x \in Cells, v \in Vals : WriteCell(x, v)
  \/ FlushSync
  \/ Frame
  \/ \E h \in {"custom", "throws"} : SetErrorHandler(h)
  \/ \E x \in Cells, u \in UserSubs : Subscribe(x, u)

\* User code whose computations mutate a wrapped array or read its length.
MutNext ==
  \/ \E e \in PlainEffs, b \in MutBodyNames : Create(e, b)
  \/ \E x \in Cells, v \in Vals : WriteCell(x, v)
  \/ \E m \in {"push", "reverse"} : CallMutation(m)
  \/ \E e \in PlainEffs : Stop(e)
  \/ FlushSync
  \/ Frame

vars == << engineVars, wrapVars, arrVars, listVars >>

Spec == Init /\ [][Next]_vars

\* The host keeps delivering the animation frames it was asked for.  Frame
\* is the only action that changes tick, it always does, and it is enabled
\* exactly when raf > 0, so this is weak fairness of Frame.
FrameDelivered == raf > 0 /\ tick' = ~tick
FairSpec == Init /\ [][NextAcyclic]_vars /\ WF_tick(FrameDelivered)

\* User code that only wraps values and reads through wrappers.
WrapSpec == Init /\ [][WrapNext]_vars

\* User code that works on the properties of wrapped objects.
PropSpec == Init /\ [][PropNext]_vars

\* User code that only wraps and mutates the array.
ArraySpec == Init /\ [][ArrayNext]_vars
MutSpec == Init /\ [][MutNext]_vars

\* The engine with a getter property that user code assigns.
CompSpec == Init /\ [][CompNext]_vars

\* The engine with nextTick().
TickSpec == Init /\ [][TickNext]_vars

\* The engine with computations that throw.
ErrSpec == Init /\ [][ErrNext]_vars

\* A keyed list that is mounted and then re-rendered.
ListSpec == Init /\ [][ListNext]_vars

\* The same list, with items whose keys change, coincide or fail.
KeySpec == Init /\ [][KeyNext]_vars

\* ========================================================================
\* Properties
\* ========================================================================
LogIdx == 1..Len(log)

\* The flush that is in progress at log position k (0 if none).
FlushStarts == { i \in LogIdx : log[i].t = "flush" }
EndOf(i) ==
  IF \E j \in LogIdx : j > i /\ log[j].t = "end"
    THEN CHOOSE j \in LogIdx :
           /\ j > i /\ log[j].t = "end"
           /\ \A m \in LogIdx : (m > i /\ log[m].t = "end") => j <= m
    ELSE Len(log) + 1
Segment(i) == { k \in LogIdx : i < k /\ k < EndOf(i) }
InFlush(k) == \E i \in FlushStarts : k \in Segment(i)

IsFlushRun(ev) == ev.t \in {"run", "mark"} /\ ev.b = << "flush" >>

RECURSIVE Ids(_)
Ids(q) == IF q = << >> THEN << >> ELSE << Head(q).e >> \o Ids(Tail(q))

\* The effects whose run() flush i called, in call order.
RunsIn(i) == Ids(SelectSeq(SubSeq(log, i + 1, EndOf(i) - 1), IsFlushRun))

Count(q, c) == Cardinality({ k \in 1..Len(q) : q[k] = c })

StoppedIn(i, c) == \E k \in Segment(i) : log[k].t = "stop" /\ log[k].e = c

\* The accessor of d evaluated over the current cell values.
GetterValue == IF val["p"] # 0 THEN val["a"] ELSE val["b"]

\* Nothing is pending and no flush is arranged or running.
Quiescent == pending = << >> /\ raf = 0 /\ ~isFlushing

\* ------------------------------------------------------------------------
\* C1  Dependency correctness.  At every write that changes a signal x, a
\* computation that has not been stopped is among the subscribers that are
\* notified if and only if its body read x since its most recent run began.
\* So a cell read only under a condition that was false in the last run
\* does not notify, and a cell read in the last run does.
\* ------------------------------------------------------------------------
C1_DependencyCorrect ==
  \A k \in LogIdx :
    log[k].t = "write" =>
      log[k].a \cap log[k].a3 = log[k].a2 \cap log[k].a3

\* A computation that read cell a in an earlier run, but not in its last
\* one (p was false), is not notified by a write that changes a.
C1_Witness ==
  \E k \in LogIdx, c \in PlainEffs :
    /\ log[k].t = "write" /\ log[k].e = "a"
    /\ body[c] = "cond" /\ c \in log[k].a3
    /\ "a" \in everRead[c] /\ "a" \notin lastReads[c]
    /\ c \notin log[k].a

\* ------------------------------------------------------------------------
\* C2  Batch coalescing.  When a flush starts, every computation that has
\* not been stopped and has been notified by one or more cells since its
\* last run has its body executed exactly once by that flush (at most once
\* if the flush itself stops it), however many cells were written and
\* however often.
\* ------------------------------------------------------------------------
C2_BatchCoalescing ==
  \A i \in FlushStarts :
    \A c \in log[i].a \cap PlainEffs :
      IF StoppedIn(i, c) THEN Count(RunsIn(i), c) <= 1
      ELSE Count(RunsIn(i), c) = 1

\* A flush ran once a computation that two distinct cells had notified.
C2_Witness ==
  \E i \in FlushStarts, k \in LogIdx :
    /\ k \in Segment(i)
    /\ log[k].t = "run" /\ log[k].b = << "flush" >>
    /\ Cardinality(log[k].a) >= 2
    /\ log[k].e \in log[i].a
    /\ Count(RunsIn(i), log[k].e) = 1

\* ------------------------------------------------------------------------
\* C3  Stop semantics.  No body execution of a computation begins after
\* stop() has been called on it.
\* ------------------------------------------------------------------------
C3_StopFinal ==
  \A k \in LogIdx : log[k].t = "run" => ~log[k].c

\* A computation that was pending when the flush started is stopped by an
\* earlier computation of the same flush, which then changes a cell the
\* stopped one had read.
C3_Witness ==
  \E i \in FlushStarts, k \in LogIdx, m \in LogIdx :
    /\ k \in Segment(i) /\ m \in Segment(i) /\ k < m
    /\ log[k].t = "stop" /\ log[k].e \in Range(log[i].b)
    /\ log[m].t = "write" /\ log[m].e \in everRead[log[k].e]
    /\ Count(RunsIn(i), log[k].e) = 0
\* ------------------------------------------------------------------------
\* C4  Derivations are reactive for their consumers.  Stated for the states
\* in which nothing is pending any more: an active computation that read d
\* in its last run has by then been re-run after every change of d's
\* result, so the value it obtained is the accessor's value over the
\* current cells.
\* ------------------------------------------------------------------------
C4_DerivationReactive ==
  Quiescent =>
    \A e \in PlainEffs :
      (made[e] /\ active[e] /\ "d" \in lastReads[e]) => seen[e] = GetterValue

\* ------------------------------------------------------------------------
\* C5  A cached derivation is invalidated by every change of its
\* dependencies.  Stated for the states in which the flush that follows the
\* write has happened: the derivation is dirty or its cached value is the
\* accessor's value over the current cells, so that the next read returns
\* that value.
\* ------------------------------------------------------------------------
C5_InvalidatedByEveryChange ==
  Quiescent =>
    \A d \in Comps : made[d] => (dirty[d] \/ cval[d] = GetterValue)

\* ------------------------------------------------------------------------
\* C6  A write never executes a body synchronously.  Every body execution
\* is the one of the constructor or is made by a flush in progress; and
\* after a computation writes a cell it has read in the same run, its next
\* execution, if any, is made by a flush that started after the write, and
\* until then it is in the pending set.
\* ------------------------------------------------------------------------
IsSelfWrite(k) ==
  /\ log[k].t = "write"
  /\ log[k].b[1] \in PlainEffs
  /\ log[k].b[1] \in log[k].a
  /\ log[k].b[1] \in log[k].a3

C6_NoSynchronousRun ==
  /\ \A k \in LogIdx :
       log[k].t = "run" =>
         \/ log[k].b = << "new" >>
         \/ log[k].b = << "flush" >> /\ InFlush(k)
  /\ \A k \in LogIdx :
       IsSelfWrite(k) =>
         LET w == log[k].b[1]
             later == { m \in LogIdx : m > k /\ log[m].t = "run"
                                             /\ log[m].e = w }
         IN  /\ \A m \in later :
                  /\ log[m].b = << "flush" >>
                  /\ \E i \in FlushStarts : k < i /\ i < m
             /\ later # {} \/ stopCalled[w] \/ w \in Range(pending)

\* A computation changed a cell it had read in the same run and is now
\* pending, not run again.
C6_Witness ==
  \E k \in LogIdx :
    /\ IsSelfWrite(k)
    /\ log[k].b[1] \in Range(pending)
    /\ scheduled[log[k].b[1]]
    /\ \A m \in LogIdx : m > k => log[m].t # "run"

\* ------------------------------------------------------------------------
\* C7  One flush calls run() on exactly the computations of its snapshot
\* that are not stopped, each once and in the order in which they were
\* scheduled.  Nothing scheduled meanwhile runs in it, no flush starts
\* inside it, and what is pending when it ends has a frame arranged.
\* ------------------------------------------------------------------------
C7_FlushSnapshotOrder ==
  /\ \A i \in FlushStarts :
       LET R == RunsIn(i)
           snap == log[i].b
           ran(c) == c \in Range(R)
       IN  /\ R = SelectSeq(snap, ran)
           /\ \A c \in Range(snap) \ Range(R) :
                c \in log[i].a2 \/ StoppedIn(i, c)
           /\ \A k \in Segment(i) :
                /\ log[k].t # "flush"
                /\ IsFlushRun(log[k]) => ~log[k].c
  /\ (~isFlushing /\ pending # << >>) => raf > 0

\* A flush ran two computations, one of them called flushSync() and
\* scheduled the other again: that one is pending after the flush.
C7_Witness ==
  \E i \in FlushStarts :
    /\ Len(RunsIn(i)) >= 2
    /\ \E k \in Segment(i) : log[k].t = "noop"
    /\ \E c \in Range(pending) : c \in Range(RunsIn(i))
    /\ EndOf(i) <= Len(log)

\* ------------------------------------------------------------------------
\* C8  Convergence.  With effect bodies that form no cycle and frames that
\* keep being delivered, the scheduler ends up quiescent for good; while
\* something is pending a frame is arranged, and at quiescence every
\* computation given to schedule() has been taken up by a flush.
\* ------------------------------------------------------------------------
C8_Convergence ==
  /\ []((~isFlushing /\ pending # << >>) => raf > 0)
  /\ [](Quiescent => handed = {})
  /\ <>[]Quiescent

\* Quiescence reached by a flush that ran a computation notified by cell b,
\* which the body of a "chain" computation writes.
C8_Witness ==
  /\ Quiescent
  /\ \E c \in PlainEffs, k \in LogIdx :
       /\ body[c] = "chain" /\ InFlush(k)
       /\ log[k].t = "run" /\ log[k].e # c /\ "b" \in log[k].a

\* ------------------------------------------------------------------------
\* C9  Wrapping is idempotent: reactive(w) is w for every wrapper w that
\* reactive produced, and reactive(p) is p for a primitive p.
\* ------------------------------------------------------------------------
C9_WrapIdempotent ==
  (wlast.op = "reactive" /\ wlast.argKind \in {"proxy", "primitive"})
    => wlast.res = wlast.arg

\* ------------------------------------------------------------------------
\* C10  Reference stability: reactive(o) on a raw object or array o returns
\* what the first reactive(o) returned, and reading the nested property
\* through a wrapper returns what the first such read returned.
\* ------------------------------------------------------------------------
C10_ReferenceStable ==
  /\ (wlast.op = "reactive" /\ wlast.argKind \in {"obj", "arr"})
       => wlast.res = firstWrap[wlast.arg]
  /\ wlast.op = "get" => wlast.res = firstGet[wlast.arg]

\* ------------------------------------------------------------------------
\* C11  Array version monotonicity.  Every mutating operation made through
\* an array wrapper (push, pop, shift, unshift, splice, sort, reverse,
\* index assignment, length assignment) increases by exactly one the
\* version cell that the wrapper reads as __version, whether or not the
\* length changes; and no step decreases any version cell.
\* ------------------------------------------------------------------------
C11_VersionMonotonic ==
  [][ /\ \A o \in ObjIds : version'[o] >= version[o]
      /\ aops' # aops => version'[alast'.cell] = version[alast'.cell] + 1
    ]_vars

\* sort() on an array of two elements, made through a wrapper whose target
\* is itself a wrapper: the length stays, the version cell has moved.
C11_Witness ==
  /\ alast.op = "sort" /\ alast.len >= 2 /\ Len(elems) = alast.len
  /\ kind[alast.cell] = "proxy"
  /\ version[alast.cell] >= 2

\* ------------------------------------------------------------------------
\* C12  Write idempotence.  A write of the value the cell already stores
\* invokes no subscriber and changes nothing in the engine: the cells, the
\* subscriptions, the effects' flags and the scheduler stay as they are.
\* So after a write that changed the cell, a second write of the same
\* value adds no notification.
\* ------------------------------------------------------------------------
C12_WriteIdempotent ==
  [][ \A x \in Cells :
        WriteCell(x, val[x]) =>
          /\ \A k \in 1..Len(log') : log'[k].t = "same"
          /\ UNCHANGED << val, subs, deps, cleanups, active, scheduled,
                          pending, isScheduled, isFlushing, raf, current,
                          stack, cval, dirty, notifiedBy, handed >>
    ]_vars

\* The cell was written again with the value it holds while it had a
\* subscriber, and nothing was scheduled.
C12_Witness ==
  /\ Len(log) = 1 /\ log[1].t = "same" /\ log[1].a # {}
  /\ log[1].b = << Null >>
  /\ val[log[1].e] # 0
  /\ pending = << >>

\* ------------------------------------------------------------------------
\* C13  Derivation laziness.  As long as no dependency of a cached
\* derivation has changed since its construction, its accessor has been
\* invoked exactly once in total, however often its value was read.
\* ------------------------------------------------------------------------
C13_AccessorOnce ==
  \A d \in Comps : (made[d] /\ ~depChanged[d]) => calls[d] = 1

\* The value was read again after the read that constructed the derivation,
\* a cell it does not depend on has changed meanwhile, and the accessor has
\* run once.
C13_Witness ==
  \E d \in Comps :
    /\ made[d] /\ ~depChanged[d] /\ calls[d] = 1
    /\ Len(log) = 1 /\ log[1].t = "readc" /\ log[1].c
    /\ val["a"] # 0

\* ------------------------------------------------------------------------
\* C14  A read of a computed's value by user code right after a write that
\* changed one of its dependencies, with no flush in between, returns the
\* value of the accessor over the new cell values.
\* ------------------------------------------------------------------------
C14_ReadAfterWrite ==
  \A k \in LogIdx :
    (log[k].t = "readc" /\ log[k].a # {}) => log[k].b = << GetterValue >>

\* ------------------------------------------------------------------------
\* C15  Reconciliation minimality.  After a reconciliation from a previous
\* sequence to a new one, every key present in both keeps its instance and
\* its node; the nodes removed are exactly those of the keys present only
\* in the old sequence; the nodes created are exactly those of the keys
\* present only in the new sequence, one each.
\* ------------------------------------------------------------------------
C15_Minimal ==
  rlast.op # "none" =>
    LET old == rlast.old
        new == { rlast.data[i] : i \in 1..Len(rlast.data) }
        KeysOf(insts) == { insts[i].key : i \in 1..Len(insts) }
        ElsOf(insts) == { insts[i].el : i \in 1..Len(insts) }
    IN  /\ ~rlast.threw
        /\ \A i \in 1..Len(old) :
             old[i].key \in new =>
               /\ \E j \in 1..Len(instances) : instances[j] = old[i]
               /\ old[i].el \in Range(dom)
        /\ rlast.removed = { old[i].el : i \in { k \in 1..Len(old) :
                                                   old[k].key \notin new } }
        /\ rlast.removed \cap Range(dom) = {}
        /\ rlast.created = { instances[j].el :
                               j \in { k \in 1..Len(instances) :
                                        instances[k].key \notin KeysOf(old) } }
        /\ Cardinality(rlast.created) = Cardinality(new \ KeysOf(old))
        /\ rlast.created \cap ElsOf(old) = {}

\* Keys [1,2,3] reconciled to [2,3,4]: one node removed, one created.
C15_Witness ==
  /\ rlast.op = "update"
  /\ Len(rlast.old) = 3
  /\ \A i \in 1..3 : rlast.old[i].key = i
  /\ rlast.data = << 2, 3, 4 >>
  /\ Cardinality(rlast.removed) = 1 /\ Cardinality(rlast.created) = 1
  /\ instances[1] = rlast.old[2] /\ instances[2] = rlast.old[3]

\* ------------------------------------------------------------------------
\* C16  After every reconciliation of a sequence with distinct keys, the
\* siblings that follow the anchor are the nodes of the items in the order
\* of the new sequence, and each of these nodes occurs once in the tree.
\* ------------------------------------------------------------------------
C16_DomOrder ==
  rlast.op # "none" =>
    LET a == CHOOSE k \in 1..Len(dom) : dom[k] = Node.anchor
        n == Len(rlast.data)
    IN  /\ Len(instances) = n
        /\ Len(dom) >= a + n
        /\ \A i \in 1..n :
             /\ instances[i].key = rlast.data[i]
             /\ dom[a + i] = instances[i].el
             /\ Cardinality({ k \in 1..Len(dom) :
                                dom[k] = instances[i].el }) = 1

\* A reconciliation that removes one item, adds one in the middle and
\* changes the order of two kept ones.
C16_Witness ==
  /\ rlast.op = "update"
  /\ rlast.removed # {} /\ rlast.created # {}
  /\ Len(instances) = 3
  /\ instances[2].el \in rlast.created
  /\ \E i, j \in 1..Len(rlast.old) :
       /\ i < j
       /\ instances[1] = rlast.old[j] /\ instances[3] = rlast.old[i]

\* ------------------------------------------------------------------------
\* C17  flushSync().  A call made while no flush is in progress has, when
\* it returns, run once every plain computation that was pending and
\* active at the call, except those that the flush itself stopped before
\* their turn; this does not depend on a frame being delivered.  A call
\* made from inside a running flush returns without running anything.
\* ------------------------------------------------------------------------
C17_FlushSyncRuns ==
  \A k \in LogIdx :
    /\ (log[k].t = "flush" /\ EndOf(k) <= Len(log)) =>
         \A c \in Range(log[k].b) \cap log[k].a3 \cap PlainEffs :
           Count(RunsIn(k), c) = 1 \/ StoppedIn(k, c)
    /\ log[k].t = "noop" => InFlush(k)

\* User code called flushSync() while a frame was still outstanding, and
\* the call ran a computation that was pending.
C17_Witness ==
  /\ Len(log) >= 3
  /\ log[1].t = "flush" /\ log[Len(log)].t = "sync"
  /\ raf > 0 /\ pending = << >>
  /\ \E c \in Range(log[1].b) \cap PlainEffs : Count(RunsIn(1), c) = 1

\* The statement for every call, wherever it is made from: on return,
\* every computation that was pending and active at the call has been run.
C17_FlushSyncAnywhere ==
  \A k \in LogIdx :
    /\ (log[k].t = "flush" /\ EndOf(k) <= Len(log)) =>
         \A c \in Range(log[k].b) \cap log[k].a3 \cap PlainEffs :
           Count(RunsIn(k), c) = 1
    /\ log[k].t = "noop" =>
         Range(log[k].b) \cap log[k].a3 \cap PlainEffs = {}

\* ------------------------------------------------------------------------
\* C18  nextTick() is a one-shot signal after the next flush.  The callback
\* of every call has run exactly once as soon as the host has delivered
\* the frame callbacks the call registered, and not before; and when it
\* ran, every computation that had been handed to the scheduler when
\* nextTick() was called had been taken up by a flush.
\* ------------------------------------------------------------------------
C18_NextTickOnce ==
  \A id \in 1..Len(ticks) :
    /\ ticks[id].runs =
         IF \E k \in 1..Len(rafq) : rafq[k].id = id THEN 0 ELSE 1
    /\ ticks[id].left = {}

\* nextTick() was called by a computation during a flush, after it had
\* scheduled another computation; the callback has run, after the flush
\* that ran the other one.
C18_Witness ==
  \E id \in 1..Len(ticks) :
    /\ ticks[id].runs = 1
    /\ ticks[id].inFlush /\ ticks[id].init # {}
    /\ ticks[id].wait = {} /\ ticks[id].left = {}
    /\ \E e \in PlainEffs :
         /\ body[e] = "tick" /\ body[Other(e)] = "sum"
         /\ ticks[id].init = {Other(e)}
         /\ val["a"] # 0

\* ------------------------------------------------------------------------
\* C19  Error isolation within a flush.  When the body of a computation
\* throws during a flush, the flush still runs the remaining computations
\* of its snapshot, the exception does not leave flush(), and the flush
\* ends with isFlushing false.
\* ------------------------------------------------------------------------
C19_ErrorIsolation ==
  \A i \in FlushStarts :
    (\E k \in Segment(i) : log[k].t = "throw") =>
      /\ \A k \in Segment(i) : log[k].t # "escape"
      /\ EndOf(i) <= Len(log)
      /\ ~isFlushing
      /\ \A c \in Range(log[i].b) \cap log[i].a3 \cap PlainEffs :
           Count(RunsIn(i), c) = 1

C21_HandlerInvoked ==
  /\ \A k \in LogIdx :
       log[k].t = "throw" =>
         /\ k + 1 < Len(log)
         /\ log[k + 1].t = "untrack"
         /\ log[k + 2].t = "handler"
         /\ log[k + 2].e = log[k].e
         /\ log[k + 2].b = << log[k].b[1], "effect" >>
  /\ \A k \in LogIdx :
       /\ log[k].t # "escape"
       /\ log[k].t = "handler" => (k > 2 /\ log[k - 2].t = "throw")
  /\ \A i \in FlushStarts : EndOf(i) <= Len(log)

\* ------------------------------------------------------------------------
\* C22  Subscriber isolation.  A write that changes a cell calls every
\* subscriber of the snapshot taken at the write, the ones after a
\* subscriber that throws included: each callback of user code is called
\* once with (newValue, oldValue), in subscription order, and each
\* computation subscribed is notified.  The exception of a subscriber is
\* caught where it is thrown, and the write of user code ends with the new
\* value stored.
\* ------------------------------------------------------------------------
C22_SubscriberIsolation ==
  \A k \in LogIdx :
    log[k].t = "write" =>
      LET called == { j \in LogIdx : j > k /\ log[j].t = "cb"
                        /\ \A m \in LogIdx :
                             (k < m /\ m < j) => log[m].t \in {"cb", "suberr"} }
      IN  /\ \A u \in log[k].a \cap UserSubs :
               Cardinality({ j \in called : log[j].e = u }) = 1
          /\ \A j \in called :
               /\ log[j].e \in log[k].a
               /\ log[j].b = << log[k].b[2], log[k].b[3] >>
               /\ log[j].e = "u1" =>
                    (j < Len(log) /\ log[j + 1].t = "suberr")
          /\ (k = 1 /\ log[k].b[1] = Null) =>
               /\ val[log[k].e] = log[k].b[2]
               /\ \A c \in log[k].a \cap Effs : log[k].e \in notifiedBy[c]

\* A write of user code to a cell whose first subscriber throws: the
\* callback subscribed after it and the computation that reads the cell
\* were both notified.
C22_Witness ==
  /\ Len(log) = 4 /\ log[1].t = "write" /\ log[1].b[1] = Null
  /\ log[2].t = "cb" /\ log[2].e = "u1" /\ log[3].t = "suberr"
  /\ log[4].t = "cb" /\ log[4].e = "u2"
  /\ log[4].b = << val[log[1].e], 0 >>
  /\ \E c \in PlainEffs :
       /\ c \in log[1].a /\ log[1].e \in notifiedBy[c]
       /\ c \in Range(pending)

\* ------------------------------------------------------------------------
\* C23  A cached derivation is read-only.  An assignment to the getter
\* property changes neither the value stored for it, nor its dirty flag,
\* nor any subscriber set, and calls no subscriber.
\* ------------------------------------------------------------------------
C23_ReadOnly ==
  [][ \A d \in Comps, v \in Vals :
        AssignComputed(d, v) =>
          /\ UNCHANGED << cval, dirty, subs >>
          /\ \A k \in 1..Len(log') : log'[k].t # "write"
    ]_vars

\* ------------------------------------------------------------------------
\* C24  Re-keying is remove plus add.  When an item that an instance was
\* rendered for is still in the sequence at the next reconciliation and
\* its key is no longer the one the instance was rendered under, that
\* instance's node is removed from the tree and the item gets a node
\* created by this reconciliation.
\* ------------------------------------------------------------------------
C24_RekeyRemoveAdd ==
  (rlast.op = "update" /\ ~rlast.threw) =>
    \A i \in 1..Len(rlast.old), j \in 1..Len(rlast.data) :
      ( /\ rlast.old[i] # NoInst
        /\ rlast.old[i].data = rlast.data[j]
        /\ rlast.old[i].key # rlast.keys[j] ) =>
          /\ rlast.old[i].el \in rlast.removed
          /\ rlast.old[i].el \notin Range(dom)
          /\ instances[j].el \in rlast.created

\* ------------------------------------------------------------------------
\* C25  Duplicate keys do not crash the reconciler.  A reconciliation of a
\* sequence in which two items have the same key, and every
\* reconciliation after one, completes without raising an error, and the
\* slot of a key is held by the last item that has it.
\* ------------------------------------------------------------------------
C25_DuplicateKeys ==
  ( /\ rlast.op # "none"
    /\ \/ \E i, j \in 1..Len(rlast.keys) :
            i # j /\ rlast.keys[i] = rlast.keys[j]
       \/ NoInst \in Range(rlast.old) ) =>
      /\ ~rlast.threw
      /\ \A i \in 1..Len(rlast.data) :
           (\A j \in (i + 1)..Len(rlast.data) :
              rlast.keys[j] # rlast.keys[i]) =>
             /\ instances[i] # NoInst
             /\ instances[i].data = rlast.data[i]

\* ------------------------------------------------------------------------
\* C26  An item whose key expression fails gets its position in the
\* sequence as its key, so the keys of such items are pairwise distinct.
\* ------------------------------------------------------------------------
C26_KeyFallsBackToIndex ==
  rlast.op # "none" =>
    /\ \A i \in rlast.fails : rlast.keys[i] = i - 1
    /\ \A i, j \in rlast.fails : i # j => rlast.keys[i] # rlast.keys[j]

\* ------------------------------------------------------------------------
\* C27  At most one future flush is arranged with the host at any time:
\* the number of outstanding frame callbacks that will call flush() is
\* never more than one, and it is one whenever something is pending and no
\* flush is in progress.
\* ------------------------------------------------------------------------
C27_OneFlushArranged ==
  /\ raf <= 1
  /\ (pending # << >> /\ ~isFlushing) => raf = 1

\* ------------------------------------------------------------------------
\* C28  Tracker discipline.  When EffectTracker.track returns or is left
\* by an exception, the active computation and the tracker stack are what
\* they were before the call, at every depth of nesting; so between the
\* calls of user code and of the host, when no body is executing, the
\* active computation is null and the stack is empty.
\* ------------------------------------------------------------------------
C28_TrackerDiscipline ==
  /\ current = Null /\ stack = << >>
  /\ \A k \in LogIdx : log[k].t = "untrack" => log[k].c

\* A computation run by a flushSync() that another body made threw: the
\* call of track at depth one was left by the exception.
C28_Witness ==
  \E k \in LogIdx :
    /\ log[k].t = "untrack" /\ log[k].c
    /\ log[k].b[1] >= 1 /\ log[k].b[2] # "none"
    /\ \E m \in LogIdx :
         m > k /\ log[m].t = "untrack" /\ log[m].b[1] = 0 /\ log[m].c

\* ------------------------------------------------------------------------
\* C29  Recomputing a dirty derivation runs its accessor under the
\* derivation's own tracking: afterwards the dependency set of the
\* derivation is the set of cells the accessor read in that recompute,
\* and a computation inside which the read happened has not been given
\* the accessor's reads as dependencies.
\* ------------------------------------------------------------------------
C29_RecomputeTracking ==
  \A k \in LogIdx :
    log[k].t = "recompute" =>
      /\ log[k].a2 = log[k].a
      /\ log[k].b # << Null >> => log[k].a3 \cap log[k].a = {}

\* ------------------------------------------------------------------------
\* C30  Edge invariant.  For every computation c and every signal x, the
\* subscriber set of x holds at most one callback of c, and it holds one
\* exactly when x is in the dependency set of c.  Reading a cell more than
\* once in a run makes one edge.
\* ------------------------------------------------------------------------
C30_EdgeInvariant ==
  \A c \in Effs, x \in Sigs :
    Count(subs[x], c) = IF x \in deps[c] THEN 1 ELSE 0

\* A computation that reads cell a twice in its body has been run again by
\* a flush and is subscribed to a once.
C30_Witness ==
  \E c \in PlainEffs, k \in LogIdx :
    /\ body[c] = "sum" /\ deps[c] = {"a", "b"}
    /\ log[k].t = "run" /\ log[k].e = c /\ log[k].b = << "flush" >>
    /\ Count(subs["a"], c) = 1
    /\ \E c2 \in PlainEffs : c2 # c /\ stopCalled[c2] /\ deps[c2] = {}

\* ------------------------------------------------------------------------
\* C31  stop() is final and idempotent.  Once stop() has been called on a
\* computation it is inactive and stays so, it is a subscriber of no cell
\* and has no dependency in any later state, also when the call was made
\* by its own running body, and a second stop() changes nothing.
\* ------------------------------------------------------------------------
C31_StopFinalNoEdges ==
  [][ \A e \in PlainEffs :
        /\ stopCalled'[e] =>
             /\ ~active'[e]
             /\ deps'[e] = {}
             /\ \A x \in Sigs : e \notin Range(subs'[x])
        /\ (stopCalled[e] /\ Stop(e)) =>
             UNCHANGED << val, subs, deps, cleanups, active, scheduled,
                          pending >>
    ]_vars

\* ------------------------------------------------------------------------
\* C38  Scheduled-flag invariant.  Between top-level calls no flush is in
\* progress, so every active computation, the internal one of the computed
\* included, has scheduled set only while it is in the pending set; a
\* computation that a flush has processed has scheduled false again.
\* ------------------------------------------------------------------------
C38_ScheduledFlag ==
  /\ ~isFlushing
  /\ \A e \in Effs :
       (made[e] /\ active[e] /\ scheduled[e]) => e \in Range(pending)

\* ------------------------------------------------------------------------
\* C32  Change-based propagation.  A recomputation that yields the cached
\* value does not notify the subscribers of the computed, and a write that
\* changes a dependency of the computed while the accessor still returns
\* the cached value notifies no subscriber of the computed and schedules
\* none of the computations that consume it.
\* ------------------------------------------------------------------------
C32_ChangeBased ==
  [][ /\ \A m \in 2..Len(log') :
           (log'[m].t = "recompute" /\ ~log'[m].c) =>
             ~(log'[m - 1].t = "write" /\ log'[m - 1].e = log'[m].e)
      /\ \A x \in Cells, v \in Vals, d \in Comps :
           ( /\ WriteCell(x, v)
             /\ made[d] /\ x \in deps[d] /\ val[x] # v
             /\ GetterValue' = cval[d] )
           => /\ \A k \in 1..Len(log') :
                   ~(log'[k].t = "write" /\ log'[k].e = d)
              /\ \A c \in PlainEffs :
                   d \in deps[c] =>
                     /\ scheduled'[c] = scheduled[c]
                     /\ c \in Range(pending') <=> c \in Range(pending)
    ]_vars

\* ------------------------------------------------------------------------
\* C34  Notification iterates over a snapshot.  The callbacks of user code
\* that a write calls are exactly the ones subscribed when the write was
\* made, each once and in subscription order: a callback subscribed by
\* another one during the notification is not called in it, and one
\* unsubscribed during the notification is still called.
\* ------------------------------------------------------------------------
C34_SnapshotNotify ==
  \A k \in LogIdx :
    log[k].t = "write" =>
      LET IsUser(c) == c \in UserSubs
          IsCb(ev) == ev.t = "cb"
          last == CHOOSE j \in k..Len(log) :
                    /\ \A m \in (k + 1)..j : log[m].t \in {"cb", "suberr"}
                    /\ j < Len(log) => log[j + 1].t \notin {"cb", "suberr"}
      IN  Ids(SelectSeq(SubSeq(log, k + 1, last), IsCb))
            = SelectSeq(log[k].b[4], IsUser)

\* A write to a cell subscribed by u4 and then u2 has called both, although
\* u4 removed u2 from the subscribers before the turn of u2.
C34_Witness ==
  \E x \in Cells :
    /\ Len(log) = 3 /\ log[1].t = "write" /\ log[1].e = x
    /\ log[1].b[4] = << "u4", "u2" >>
    /\ log[2].t = "cb" /\ log[2].e = "u4"
    /\ log[3].t = "cb" /\ log[3].e = "u2"
    /\ subs[x] = << "u4" >>

\* ------------------------------------------------------------------------
\* C33  A property write through a wrapper notifies only if the value
\* changed.  An assignment of the value the raw property holds, primitive
\* or object, and an assignment of the value that has just been read from
\* the property through the same wrapper, notifies the subscribers of no
\* Signal, and the raw property holds the value afterwards.
\* ------------------------------------------------------------------------
C33_SameValueSilent ==
  [][ \A w \in ObjIds, v \in {0} \cup ObjIds :
        ( /\ SetChild(w, v)
          /\ kind[target[w]] = "obj"
          /\ \/ v = child[target[w]]
             \/ wlast.op = "get" /\ wlast.arg = w /\ wlast.res = v )
        => /\ ~wlast'.notified
           /\ child'[target[w]] = wlast'.res
           /\ v = child[target[w]] => child'[target[w]] = v
    ]_vars

\* ------------------------------------------------------------------------
\* C39  Cell and raw storage stay coherent.  Whatever reads, assignments
\* and deletions user code makes through object wrappers, every Signal
\* that exists for the property, in the Signal map of whichever target,
\* holds the value the raw object has for the property, undefined if the
\* property is absent.
\* ------------------------------------------------------------------------
C39_CellCoherent ==
  \A o \in ObjIds :
    (kind[o] \in {"obj", "proxy"} /\ ~IsArray(Heap, o)
       /\ "child" \in sigKeys[o])
      => cell[o] = child[RawOf(Heap, o)]

\* C35: for a key present in both the old and the new sequence, after the
\* reconciliation the context object that the reused instance's bindings
\* evaluate against holds the new item and the new index.
C35_ReusedContextRefreshed ==
  (rlast.op = "update" /\ ~rlast.threw) =>
    \A i \in 1..Len(instances) :
      (\E j \in 1..Len(rlast.old) : rlast.old[j].key = instances[i].key) =>
        bctx[instances[i].el] = [item |-> rlast.data[i], index |-> i - 1]

\* C36: a list instance is destroyed exactly when its key disappears from
\* the source sequence: the cleanup of each removed instance runs once, and
\* every instance of the sequence, reused or new, moved or not, has active
\* bindings after the reconciliation, also once the observer of the
\* binding registry has processed the mutations of the reconciliation.
C36_DestroyedIffKeyGone ==
  (rlast.op # "none" /\ ~rlast.threw) =>
    /\ \A i \in 1..Len(instances) : instances[i].el \in live
    /\ \A j \in 1..Len(rlast.old) :
         LET o == rlast.old[j]
             n == Cardinality({ k \in 1..Len(rlast.cleaned) :
                                  rlast.cleaned[k] = o.el })
         IN  IF \E i \in 1..Len(instances) : instances[i].key = o.key
               THEN n = 0
               ELSE n = 1 /\ o.el \notin live

\* C37: calling a mutating array method from inside a Computation's body
\* does not make that Computation a dependent of the array: a Computation
\* that only mutates a wrapped array and never reads it is subscribed to
\* none of the array's cells and is never scheduled.
C37_MutationUntracked ==
  \A e \in PlainEffs :
    body[e] \in {"push", "reverse"} =>
      /\ deps[e] \cap ArrSigs = {}
      /\ \A x \in ArrSigs : e \notin Range(subs[x])
      /\ e \notin Range(pending)

====
